---- MODULE Spec2Model ----
(***************************************************************************)
(* Turn orchestrator of the crop advisor (src/src/app/graph.py), its data  *)
(* model (models.py), the session store (store.py) and the front-end       *)
(* handlers that drive turns (telegram_bot.py).                             *)
(*                                                                          *)
(* Conventions.  Python None is NoneStr for string-valued fields and        *)
(* NoneNum for number-valued ones.  A text is the record of the features    *)
(* the code's regexes and comparisons read from it (Text below).  Time is   *)
(* counted in whole hours.                                                  *)
(***************************************************************************)
EXTENDS Integers, Sequences, FiniteSets, TLC

\* ------------------------------------------------------------------ bounds
MaxTurns == 2          \* turns started per exploration
MaxTicks == 1          \* clock advances per exploration
RecursionLimit == 25   \* supersteps the graph runtime allows one invocation
OldTurns == 8          \* turns already in the log of a long-running session
MaxLogTurns == 1       \* turns started on top of the long-running session
MaxRecoveries == 0     \* per turn: times a provider that failed answers again
MaxMerges == 2         \* merges applied one after another to one session

\* --------------------------------------------------------- program constants
KeepLast == 16
WeatherMaxAgeHours == 6
WebMaxAgeHours == 24
SchemesMaxAgeDays == 7
MarketMaxAgeHours == 12
LlmMaxTries == 2

NoneStr == "<None>"
NoneNum == -1000
BadTs == -1            \* a fetched_at string that datetime.fromisoformat rejects

\* ------------------------------------------------------------ string helpers
\* str.strip(): leading and trailing whitespace removed.
Whitespace == {" ", "\n", "\t"}

RECURSIVE StripLeft(_)
StripLeft(x) ==
  IF Len(x) > 0 /\ SubSeq(x, 1, 1) \in Whitespace
  THEN StripLeft(SubSeq(x, 2, Len(x))) ELSE x

RECURSIVE StripRight(_)
StripRight(x) ==
  IF Len(x) > 0 /\ SubSeq(x, Len(x), Len(x)) \in Whitespace
  THEN StripRight(SubSeq(x, 1, Len(x) - 1)) ELSE x

Strip(x) == StripRight(StripLeft(x))

\* str.lower() on the strings the model uses.
Lower(x) ==
  CASE x = "Rice" -> "rice"
    [] x = "Flowering" -> "flowering"
    [] x = "Germination" -> "germination"
    [] x = "Unknown" -> "unknown"
    [] x = "Yellow leaves" -> "yellow leaves"
    [] x = "YELLOW LEAVES" -> "yellow leaves"
    [] x = "Aphids" -> "aphids"
    [] x = "High" -> "high"
    [] x = "Medium" -> "medium"
    [] x = "Bogus" -> "bogus"
    [] x = "Wilting" -> "wilting"
    [] x = "Spots" -> "spots"
    [] x = "Borer" -> "borer"
    [] x = "Yes" -> "yes"
    [] x = "HIGH" -> "high"
    [] x = "Low" -> "low"
    [] x = "True" -> "true"
    [] x = "Certain" -> "certain"
    [] x = "Pre_Sowing" -> "pre_sowing"
    [] OTHER -> x

\* Python truthiness of an Optional[str] and of an Optional[float].
TruthyStr(x) == x # NoneStr /\ x # ""
TruthyNum(x) == x # NoneNum /\ x # 0

\* `x and x.strip()` as a condition.
NonBlank(x) == TruthyStr(x) /\ Strip(x) # ""

_ALLOWED_STAGES ==
  {"unknown", "pre_sowing", "sowing", "germination", "vegetative", "flowering",
   "fruiting", "maturity", "harvest", "post_harvest"}

\* ------------------------------------------------------------------- texts
\* kind "action": body is the marker after the __ACTION__: prefix.
\* kind "stage" : the text matches a stage-update pattern, body is the word.
\* kind "free"  : any other text; body "reco" when it holds a crop-recommendation
\*                phrase; lat/lon are what _LATLON_RE finds in it.
\* kind "reply" : assistant-authored content.
Txt(kind, body, lat, lon) == [kind |-> kind, body |-> body, lat |-> lat, lon |-> lon]

ACTION_SCHEMES == Txt("action", "SCHEMES", NoneNum, NoneNum)
ACTION_MARKET == Txt("action", "MARKET", NoneNum, NoneNum)
ACTION_DIGEST == Txt("action", "DIGEST", NoneNum, NoneNum)
ACTION_CROP_RECO == Txt("action", "CROP_RECO", NoneNum, NoneNum)
ACTION_BUY == Txt("action", "BUY", NoneNum, NoneNum)
ACTION_SET_LANG == Txt("action", "SET_LANG:hi", NoneNum, NoneNum)
EmptyText == Txt("free", "", NoneNum, NoneNum)
Reply(body) == Txt("reply", body, NoneNum, NoneNum)

_is_action_message(text) == text.kind = "action"

_extract_stage_from_text(text) ==
  IF text.kind = "stage" /\ Lower(Strip(text.body)) \in _ALLOWED_STAGES
  THEN Lower(Strip(text.body)) ELSE NoneStr

_is_stage_update_message(text) == _extract_stage_from_text(text) # NoneStr

\* The comparison with ACTION_CROP_RECO is made on the lower-cased text and the
\* marker is upper-case, so only the phrase lists can match.
_user_wants_crop_reco(text) == text.kind = "free" /\ text.body = "reco"

\* extract_lat_lon: the pair the pattern finds, or (None, None) out of range.
extract_lat_lon(text) ==
  IF text.kind = "free" /\ text.lat # NoneNum /\ text.lon # NoneNum
     /\ -90 <= text.lat /\ text.lat <= 90 /\ -180 <= text.lon /\ text.lon <= 180
  THEN <<text.lat, text.lon>> ELSE <<NoneNum, NoneNum>>

\* ------------------------------------------------------------- data model
FarmerContext ==
  [farmer_name |-> NoneStr, crop |-> NoneStr, stage |-> "unknown",
   land_size |-> NoneNum, land_unit |-> NoneStr, location_text |-> NoneStr,
   lat |-> NoneNum, lon |-> NoneNum, sowing_date |-> NoneStr,
   irrigation |-> NoneStr, soil_type |-> NoneStr, notes |-> NoneStr,
   language |-> "en"]

Observation == [symptoms |-> <<>>, pests_seen |-> <<>>, urgency |-> "low"]

IntakeExtraction ==
  [farmer_name |-> NoneStr, land_size |-> NoneNum, land_unit |-> NoneStr,
   crop |-> NoneStr, stage |-> NoneStr, location_text |-> NoneStr,
   sowing_date |-> NoneStr, irrigation |-> NoneStr, soil_type |-> NoneStr,
   notes |-> NoneStr, symptoms |-> <<>>, pests_seen |-> <<>>, urgency |-> NoneStr]

\* An enrichment snapshot (Weather/Web/Schemes/MarketContext) or None.
NoSnap == [some |-> FALSE, fetched_at |-> 0, query |-> ""]
Snap(at, q) == [some |-> TRUE, fetched_at |-> at, query |-> q]

\* An Advisory or None; made_in is the turn that produced the record.
NoAdv == [some |-> FALSE, by |-> "", made_in |-> 0]
Adv(by, turn) == [some |-> TRUE, by |-> by, made_in |-> turn]

GraphState(chat_id) ==
  [chat_id |-> chat_id, turn_count |-> 0, last_node |-> NoneStr, messages |-> <<>>,
   context |-> FarmerContext, observation |-> Observation,
   weather |-> NoSnap, web |-> NoSnap, schemes |-> NoSnap, market |-> NoSnap,
   last_image |-> NoneStr, image_diagnosis |-> NoneStr, advisory |-> NoAdv]

\* A log entry; `at` is the turn in which it was appended.
Msg(role, content, at) == [role |-> role, content |-> content, at |-> at]

add_user(st, text) ==
  [st EXCEPT !.messages = Append(@, Msg("user", text, st.turn_count + 1))]

add_assistant(st, body) ==
  [st EXCEPT !.messages = Append(@, Msg("assistant", Reply(body), st.turn_count))]

\* A cap that keeps the oldest entries.
compact_messages_keep_oldest(st) ==
  IF Len(st.messages) > KeepLast
  THEN [st EXCEPT !.messages = SubSeq(@, 1, KeepLast)]
  ELSE st

compact_messages(st) ==
  IF Len(st.messages) > KeepLast
  THEN [st EXCEPT !.messages = SubSeq(@, Len(@) - KeepLast + 1, Len(@))]
  ELSE st

\* --------------------------------------------------------- message helpers
RECURSIVE LastUserFrom(_, _)
LastUserFrom(msgs, i) ==
  IF i = 0 THEN EmptyText
  ELSE IF msgs[i].role = "user" THEN msgs[i].content
  ELSE LastUserFrom(msgs, i - 1)

_last_user_text(st) == LastUserFrom(st.messages, Len(st.messages))

_wants_schemes(st) == _last_user_text(st) \in {ACTION_SCHEMES, ACTION_DIGEST}
_wants_market(st) == _last_user_text(st) \in {ACTION_MARKET, ACTION_DIGEST}
_wants_buy(st) == _last_user_text(st) = ACTION_BUY

\* ------------------------------------------------------ staleness evaluator
\* Every timestamp the program writes comes from _utc_now_iso and carries the
\* UTC offset; BadTs stands for a string that fromisoformat rejects.
_parse_iso_dt(ts) == IF ts = BadTs THEN NoneNum ELSE ts

\* A staleness test that counts a snapshot as stale from the threshold on.
IsStaleAtThreshold(snap, t, max_age_hours) ==
  IF ~snap.some THEN TRUE
  ELSE IF _parse_iso_dt(snap.fetched_at) = NoneNum THEN TRUE
  ELSE (t - _parse_iso_dt(snap.fetched_at)) >= max_age_hours

IsStale(snap, t, max_age_hours) ==
  IF ~snap.some THEN TRUE
  ELSE IF _parse_iso_dt(snap.fetched_at) = NoneNum THEN TRUE
  ELSE (t - _parse_iso_dt(snap.fetched_at)) > max_age_hours

_is_weather_stale(st, t) == IsStale(st.weather, t, WeatherMaxAgeHours)
_is_web_stale(st, t) == IsStale(st.web, t, WebMaxAgeHours)
_is_schemes_stale(st, t) == IsStale(st.schemes, t, SchemesMaxAgeDays * 24)
_is_market_stale(st, t) == IsStale(st.market, t, MarketMaxAgeHours)

\* ------------------------------------------------------ context merge engine
\* A merge that takes any non-null update, blank ones included.
MergeStrFieldClearing(old, u) == IF u # NoneStr THEN Strip(u) ELSE old

MergeStrField(old, u) == IF NonBlank(u) THEN Strip(u) ELSE old

\* A context merge that takes any non-blank stage, listed or not.
_merge_context_any_stage(old, upd) ==
  [old EXCEPT
     !.farmer_name = MergeStrField(@, upd.farmer_name),
     !.land_size = IF upd.land_size # NoneNum THEN upd.land_size ELSE @,
     !.land_unit = MergeStrField(@, upd.land_unit),
     !.crop = IF NonBlank(upd.crop) THEN Lower(Strip(upd.crop)) ELSE @,
     !.stage = IF NonBlank(upd.stage) THEN Lower(Strip(upd.stage)) ELSE @,
     !.location_text = MergeStrField(@, upd.location_text),
     !.sowing_date = MergeStrField(@, upd.sowing_date),
     !.irrigation = MergeStrField(@, upd.irrigation),
     !.soil_type = MergeStrField(@, upd.soil_type),
     !.notes = MergeStrField(@, upd.notes)]

_merge_context(old, upd) ==
  [old EXCEPT
     !.farmer_name = MergeStrField(@, upd.farmer_name),
     !.land_size = IF upd.land_size # NoneNum THEN upd.land_size ELSE @,
     !.land_unit = MergeStrField(@, upd.land_unit),
     !.crop = IF NonBlank(upd.crop) THEN Lower(Strip(upd.crop)) ELSE @,
     !.stage = IF NonBlank(upd.stage)
               THEN (IF Lower(Strip(upd.stage)) \in _ALLOWED_STAGES
                     THEN Lower(Strip(upd.stage)) ELSE @)
               ELSE @,
     !.location_text = MergeStrField(@, upd.location_text),
     !.sowing_date = MergeStrField(@, upd.sowing_date),
     !.irrigation = MergeStrField(@, upd.irrigation),
     !.soil_type = MergeStrField(@, upd.soil_type),
     !.notes = MergeStrField(@, upd.notes)]

LowerSet(list) == {Lower(list[i]) : i \in 1..Len(list)}

\* An append loop that compares the entries as they are spelled.
RECURSIVE AppendUniqueCaseSensitive(_, _)
AppendUniqueCaseSensitive(list, new) ==
  IF new = <<>> THEN list
  ELSE LET x == Strip(IF Head(new) = NoneStr THEN "" ELSE Head(new))
       IN AppendUniqueCaseSensitive(
            IF x # "" /\ \A i \in 1..Len(list) : list[i] # x THEN Append(list, x) ELSE list,
            Tail(new))

\* One pass of `for s in upd.symptoms: ... append if not seen ignoring case`.
RECURSIVE AppendUnique(_, _)
AppendUnique(list, new) ==
  IF new = <<>> THEN list
  ELSE LET x == Strip(IF Head(new) = NoneStr THEN "" ELSE Head(new))
       IN AppendUnique(
            IF x # "" /\ Lower(x) \notin LowerSet(list) THEN Append(list, x) ELSE list,
            Tail(new))

UrgencyOrder(u) == CASE u = "low" -> 0 [] u = "medium" -> 1 [] u = "high" -> 2

\* An urgency merge that takes every recognised update, lower ones included.
MergeUrgencyLatest(old, u) ==
  IF TruthyStr(u) /\ Lower(Strip(u)) \in {"low", "medium", "high"}
  THEN Lower(Strip(u)) ELSE old

MergeUrgency(old, u) ==
  IF TruthyStr(u)
  THEN (IF Lower(Strip(u)) \in {"low", "medium", "high"}
        THEN (IF UrgencyOrder(Lower(Strip(u))) > UrgencyOrder(old)
              THEN Lower(Strip(u)) ELSE old)
        ELSE old)
  ELSE old

_merge_observation(old, upd) ==
  [symptoms |-> AppendUnique(old.symptoms, upd.symptoms),
   pests_seen |-> AppendUnique(old.pests_seen, upd.pests_seen),
   urgency |-> MergeUrgency(old.urgency, upd.urgency)]

\* ------------------------------------------------ routing decision function
_needs_profile_questions(st) ==
  LET c == st.context IN
  IF ~TruthyStr(c.farmer_name) THEN TRUE
  ELSE IF ~(TruthyNum(c.lat) /\ TruthyNum(c.lon)) /\ ~NonBlank(c.location_text) THEN TRUE
  ELSE IF ~TruthyStr(c.crop) THEN TRUE
  ELSE IF c.stage = "unknown" THEN TRUE
  ELSE IF c.land_size = NoneNum THEN TRUE
  ELSE FALSE

_has_location(st) ==
  LET c == st.context IN
  (TruthyNum(c.lat) /\ TruthyNum(c.lon)) \/ NonBlank(c.location_text)

\* A routing function that asks for the profile before it looks at the image.
_route_ask_first(st, t) ==
  LET c == st.context
      last_user == _last_user_text(st)
  IN
  IF last_user = ACTION_BUY THEN "buy"
  ELSE IF last_user = ACTION_CROP_RECO /\ _has_location(st) THEN "crop_reco"
  ELSE IF _is_stage_update_message(last_user) THEN "advice"
  ELSE IF ~TruthyStr(c.crop) /\ _has_location(st) /\ last_user # ACTION_DIGEST
       THEN (IF st.last_node # "crop_reco" \/ _user_wants_crop_reco(last_user)
             THEN "crop_reco" ELSE "ask")
  ELSE IF _needs_profile_questions(st) /\ last_user # ACTION_DIGEST THEN "ask"
  ELSE IF TruthyStr(st.last_image) /\ ~TruthyStr(st.image_diagnosis) THEN "vision"
  ELSE IF TruthyNum(c.lat) /\ TruthyNum(c.lon) /\ _is_weather_stale(st, t) THEN "weather"
  ELSE IF (st.observation.symptoms # <<>> /\ _is_web_stale(st, t))
          \/ (last_user = ACTION_DIGEST /\ _is_web_stale(st, t)) THEN "web"
  ELSE IF _wants_schemes(st) /\ _is_schemes_stale(st, t) THEN "schemes"
  ELSE IF _wants_market(st) /\ _is_market_stale(st, t) THEN "market"
  ELSE "advice"

\* A routing function that looks at the pending image before the buy marker.
_route_vision_first(st, t) ==
  IF TruthyStr(st.last_image) /\ ~TruthyStr(st.image_diagnosis) THEN "vision"
  ELSE _route_ask_first(st, t)

\* A routing function that honours the crop-recommendation marker with or
\* without a location.
_route_marker_always(st, t) ==
  IF _last_user_text(st) = ACTION_CROP_RECO THEN "crop_reco"
  ELSE _route_ask_first(st, t)

\* A routing function that ranks the automatic crop recommendation before the
\* stage statement.
_route_auto_reco_first(st, t) ==
  LET last_user == _last_user_text(st) IN
  IF /\ last_user \notin {ACTION_BUY, ACTION_CROP_RECO, ACTION_DIGEST}
     /\ ~TruthyStr(st.context.crop)
     /\ _has_location(st)
     /\ (st.last_node # "crop_reco" \/ _user_wants_crop_reco(last_user))
  THEN "crop_reco"
  ELSE _route_ask_first(st, t)

\* A routing function that asks for the profile on the digest marker too.
_route_digest_asks(st, t) ==
  IF _last_user_text(st) = ACTION_DIGEST /\ _needs_profile_questions(st) THEN "ask"
  ELSE _route_ask_first(st, t)

\* A routing function that refreshes a stale schemes snapshot before any
\* advice, whatever the message.
_route_schemes_always(st, t) ==
  IF _route_ask_first(st, t) = "advice"
     /\ ~_is_stage_update_message(_last_user_text(st))
     /\ _is_schemes_stale(st, t)
  THEN "schemes"
  ELSE _route_ask_first(st, t)

_route(st, t) ==
  LET c == st.context
      last_user == _last_user_text(st)
  IN
  IF last_user = ACTION_BUY THEN "buy"
  ELSE IF last_user = ACTION_CROP_RECO /\ _has_location(st) THEN "crop_reco"
  ELSE IF _is_stage_update_message(last_user) THEN "advice"
  ELSE IF ~TruthyStr(c.crop) /\ _has_location(st) /\ last_user # ACTION_DIGEST
       THEN (IF st.last_node # "crop_reco" \/ _user_wants_crop_reco(last_user)
             THEN "crop_reco" ELSE "ask")
  ELSE IF TruthyStr(st.last_image) /\ ~TruthyStr(st.image_diagnosis) THEN "vision"
  ELSE IF _needs_profile_questions(st) /\ last_user # ACTION_DIGEST THEN "ask"
  ELSE IF TruthyNum(c.lat) /\ TruthyNum(c.lon) /\ _is_weather_stale(st, t) THEN "weather"
  ELSE IF (st.observation.symptoms # <<>> /\ _is_web_stale(st, t))
          \/ (last_user = ACTION_DIGEST /\ _is_web_stale(st, t)) THEN "web"
  ELSE IF _wants_schemes(st) /\ _is_schemes_stale(st, t) THEN "schemes"
  ELSE IF _wants_market(st) /\ _is_market_stale(st, t) THEN "market"
  ELSE "advice"

\* ------------------------------------------------- external collaborators
\* One structured-output call: `resps` holds the outcome of each request the
\* model provider would answer, "bad" for an error or a non-object reply.
BadResp == [json |-> FALSE, valid |-> FALSE, upd |-> IntakeExtraction]
JsonResp(valid, upd) == [json |-> TRUE, valid |-> valid, upd |-> upd]

RECURSIVE LlmAttempt(_, _, _)
LlmAttempt(resps, attempt, max_tries) ==
  IF attempt > max_tries THEN [ok |-> FALSE, data |-> BadResp, tries |-> max_tries]
  ELSE IF resps[attempt].json THEN [ok |-> TRUE, data |-> resps[attempt], tries |-> attempt]
  ELSE LlmAttempt(resps, attempt + 1, max_tries)

\* A call that allows itself one request more than max_tries.
_llm_json_extra_try(resps, max_tries) == LlmAttempt(resps, 1, max_tries + 1)

_llm_json(resps, max_tries) == LlmAttempt(resps, 1, max_tries)

\* tools.geocode: "raise" (ToolError), "none" (no hit: None, None, q) or "hit".
geocode(location_text, outcome) ==
  IF Strip(location_text) = "" THEN [raised |-> FALSE, lat |-> NoneNum, lon |-> NoneNum, resolved |-> ""]
  ELSE IF outcome = "raise" THEN [raised |-> TRUE, lat |-> NoneNum, lon |-> NoneNum, resolved |-> ""]
  ELSE IF outcome = "none"
       THEN [raised |-> FALSE, lat |-> NoneNum, lon |-> NoneNum, resolved |-> Strip(location_text)]
  ELSE [raised |-> FALSE, lat |-> 19, lon |-> 73, resolved |-> "Pune, MH, IN"]

\* tools.buy_inputs raises only for an empty crop: each of its three searches
\* catches its own ToolError.
buy_inputs(loc, crop, n_urls) ==
  IF crop = "" THEN [raised |-> TRUE, urls |-> 0] ELSE [raised |-> FALSE, urls |-> n_urls]

\* ---------------------------------------------------------- step executors
\* Each executor returns the partial update it hands back to the graph runtime.
ApplyUpdate(st, upd) ==
  [k \in DOMAIN st |-> IF k \in DOMAIN upd THEN upd[k] ELSE st[k]]

_deep_merge(base, upd) == ApplyUpdate(base, upd)

\* An intake whose stage shortcut also hands back an emptied observation.
intake_node_stage_clears_observation(st, resps) ==
  LET s1 == [st EXCEPT !.last_node = "intake"]
      last_user == _last_user_text(s1)
      stage_direct == _extract_stage_from_text(last_user)
      r == _llm_json(resps, LlmMaxTries)
  IN
  IF TruthyStr(stage_direct)
  THEN [context |-> [s1.context EXCEPT !.stage = stage_direct],
        observation |-> Observation, last_node |-> "intake"]
  ELSE IF _is_action_message(last_user)
  THEN [context |-> s1.context, observation |-> s1.observation, last_node |-> "intake"]
  ELSE IF ~(r.ok /\ r.data.valid)
  THEN [context |-> s1.context, observation |-> s1.observation, last_node |-> "intake"]
  ELSE [context |-> _merge_context(s1.context, r.data.upd),
        observation |-> _merge_observation(s1.observation, r.data.upd),
        last_node |-> "intake"]

\* An intake whose failure path hands back an emptied observation.
intake_node_failure_clears_observation(st, resps) ==
  LET s1 == [st EXCEPT !.last_node = "intake"]
      last_user == _last_user_text(s1)
      stage_direct == _extract_stage_from_text(last_user)
      ll == extract_lat_lon(last_user)
      ctx == IF ll[1] # NoneNum /\ ll[2] # NoneNum
             THEN [s1.context EXCEPT !.lat = IF TruthyNum(@) THEN @ ELSE ll[1],
                                     !.lon = IF TruthyNum(@) THEN @ ELSE ll[2]]
             ELSE s1.context
      r == _llm_json(resps, LlmMaxTries)
  IN
  IF TruthyStr(stage_direct)
  THEN [context |-> [s1.context EXCEPT !.stage = stage_direct], last_node |-> "intake"]
  ELSE IF _is_action_message(last_user)
  THEN [context |-> s1.context, observation |-> s1.observation, last_node |-> "intake"]
  ELSE IF ~(r.ok /\ r.data.valid)
  THEN [context |-> ctx, observation |-> Observation, last_node |-> "intake"]
  ELSE [context |-> _merge_context(ctx, r.data.upd),
        observation |-> _merge_observation(s1.observation, r.data.upd),
        last_node |-> "intake"]

intake_node(st, resps) ==
  LET s1 == [st EXCEPT !.last_node = "intake"]
      last_user == _last_user_text(s1)
      stage_direct == _extract_stage_from_text(last_user)
      ll == extract_lat_lon(last_user)
      ctx == IF ll[1] # NoneNum /\ ll[2] # NoneNum
             THEN [s1.context EXCEPT !.lat = IF TruthyNum(@) THEN @ ELSE ll[1],
                                     !.lon = IF TruthyNum(@) THEN @ ELSE ll[2]]
             ELSE s1.context
      r == _llm_json(resps, LlmMaxTries)
  IN
  IF TruthyStr(stage_direct)
  THEN [context |-> [s1.context EXCEPT !.stage = stage_direct], last_node |-> "intake"]
  ELSE IF _is_action_message(last_user)
  THEN [context |-> s1.context, observation |-> s1.observation, last_node |-> "intake"]
  ELSE IF ~(r.ok /\ r.data.valid)
  THEN [context |-> ctx, observation |-> s1.observation, last_node |-> "intake"]
  ELSE [context |-> _merge_context(ctx, r.data.upd),
        observation |-> _merge_observation(s1.observation, r.data.upd),
        last_node |-> "intake"]

plan_node(st) == [last_node |-> "plan"]

AskMessage(c) ==
  IF ~TruthyStr(c.farmer_name) THEN "Name?"
  ELSE IF ~(TruthyNum(c.lat) /\ TruthyNum(c.lon)) /\ ~NonBlank(c.location_text) THEN "Location?"
  ELSE IF ~TruthyStr(c.crop) THEN "Pick one crop"
  ELSE IF c.stage = "unknown" THEN "Stage?"
  ELSE IF c.land_size = NoneNum THEN "Land size?"
  ELSE "Send symptoms or photo."

\* An ask step that hands back no advisory key.
ask_node_keeps_advisory(st) ==
  LET s1 == compact_messages(add_assistant([st EXCEPT !.last_node = "ask"], AskMessage(st.context)))
  IN [messages |-> s1.messages, last_node |-> "ask"]

ask_node(st) ==
  LET s1 == compact_messages(add_assistant([st EXCEPT !.last_node = "ask"], AskMessage(st.context)))
  IN [messages |-> s1.messages, last_node |-> "ask", advisory |-> NoAdv]

crop_reco_node(st, t, geo, wx_ok, crops_ok, resps) ==
  LET c0 == st.context
      g == geocode(IF c0.location_text = NoneStr THEN "" ELSE c0.location_text, geo)
      c == IF ~(TruthyNum(c0.lat) /\ TruthyNum(c0.lon)) /\ TruthyStr(c0.location_text)
              /\ ~g.raised /\ g.lat # NoneNum /\ g.lon # NoneNum
           THEN [c0 EXCEPT !.lat = g.lat, !.lon = g.lon, !.location_text = g.resolved]
           ELSE c0
      s1 == [st EXCEPT !.last_node = "crop_reco", !.context = c]
      weather == IF TruthyNum(c.lat) /\ TruthyNum(c.lon) /\ _is_weather_stale(s1, t) /\ wx_ok
                 THEN Snap(t, "weather") ELSE s1.weather
      web == IF crops_ok THEN Snap(t, "crops") ELSE s1.web
      s2 == [s1 EXCEPT !.weather = weather, !.web = web]
      r == _llm_json(resps, LlmMaxTries)
  IN
  IF ~r.ok
  THEN [messages |-> add_assistant(s2, "Share location and ask: recommend crops.").messages,
        advisory |-> NoAdv, last_node |-> "crop_reco"]
  ELSE LET s3 == compact_messages(add_assistant(
                   [s2 EXCEPT !.advisory = Adv("crop_reco", st.turn_count)], "headline"))
       IN [context |-> s3.context, weather |-> s3.weather, web |-> s3.web,
           advisory |-> s3.advisory, messages |-> s3.messages, last_node |-> "crop_reco"]

buy_node(st, n_urls) ==
  LET s1 == [st EXCEPT !.last_node = "buy"]
      crop == Lower(Strip(IF TruthyStr(s1.context.crop) THEN s1.context.crop ELSE ""))
      loc0 == Strip(IF TruthyStr(s1.context.location_text) THEN s1.context.location_text ELSE "")
      loc == IF loc0 = "" /\ TruthyNum(s1.context.lat) /\ TruthyNum(s1.context.lon)
             THEN "lat,lon" ELSE loc0
      b == buy_inputs(loc, crop, n_urls)
      headline == IF crop = "" THEN "Set crop first"
                  ELSE IF loc = "" THEN "Set location first"
                  ELSE IF b.raised THEN "Buying links not available right now."
                  ELSE "Buy inputs"
      s2 == compact_messages(add_assistant(
              [s1 EXCEPT !.advisory = Adv("buy", st.turn_count)], headline))
  IN [advisory |-> s2.advisory, messages |-> s2.messages, last_node |-> "buy"]

\* A weather step that drops the cached snapshot when the provider fails.
weather_node_clearing(st, t, geo, wx_ok) ==
  IF wx_ok /\ TruthyNum(st.context.lat) /\ TruthyNum(st.context.lon)
  THEN [weather |-> Snap(t, "weather"), context |-> st.context, last_node |-> "weather"]
  ELSE [weather |-> NoSnap, context |-> st.context, last_node |-> "weather"]

weather_node(st, t, geo, wx_ok) ==
  LET c0 == st.context
      g == geocode(IF c0.location_text = NoneStr THEN "" ELSE c0.location_text, geo)
      c == IF ~(TruthyNum(c0.lat) /\ TruthyNum(c0.lon)) /\ TruthyStr(c0.location_text)
              /\ ~g.raised /\ g.lat # NoneNum /\ g.lon # NoneNum
           THEN [c0 EXCEPT !.lat = g.lat, !.lon = g.lon, !.location_text = g.resolved]
           ELSE c0
  IN
  IF ~(TruthyNum(c.lat) /\ TruthyNum(c.lon))
  THEN [context |-> c, weather |-> st.weather, last_node |-> "weather"]
  ELSE IF wx_ok THEN [weather |-> Snap(t, "weather"), context |-> c, last_node |-> "weather"]
  ELSE [weather |-> st.weather, context |-> c, last_node |-> "weather"]

\* A web step whose failure path also hands back an empty weather snapshot.
web_node_dropping_weather(st, t, ok) ==
  IF ok THEN [web |-> Snap(t, "web"), last_node |-> "web"]
  ELSE [web |-> st.web, weather |-> NoSnap, last_node |-> "web"]

web_node(st, t, ok) ==
  IF ok THEN [web |-> Snap(t, "web"), last_node |-> "web"]
  ELSE [web |-> st.web, last_node |-> "web"]

schemes_node(st, t, ok) ==
  IF ~TruthyStr(st.context.location_text) THEN [schemes |-> st.schemes, last_node |-> "schemes"]
  ELSE IF ok THEN [schemes |-> Snap(t, "schemes"), last_node |-> "schemes"]
  ELSE [schemes |-> st.schemes, last_node |-> "schemes"]

market_node(st, t, ok) ==
  IF ok THEN [market |-> Snap(t, "market"), last_node |-> "market"]
  ELSE [market |-> st.market, last_node |-> "market"]

vision_node(st, file_ok, model_ok) ==
  IF st.last_image = NoneStr THEN [image_diagnosis |-> NoneStr, last_node |-> "vision"]
  ELSE IF ~file_ok THEN [image_diagnosis |-> NoneStr, last_node |-> "vision"]
  ELSE IF model_ok THEN [image_diagnosis |-> "diagnosis", last_node |-> "vision"]
  ELSE [image_diagnosis |-> NoneStr, last_node |-> "vision"]

\* An advice step whose failure path hands back the log as it found it.
advice_node_silent(st, resps) ==
  LET s1 == [st EXCEPT !.last_node = "advice"]
      r == _llm_json(resps, LlmMaxTries)
  IN
  IF ~r.ok
  THEN [messages |-> s1.messages, advisory |-> NoAdv, last_node |-> "advice"]
  ELSE [advisory |-> Adv("advice", st.turn_count),
        messages |-> compact_messages(add_assistant(s1, "headline")).messages,
        last_node |-> "advice"]

\* An advice step whose failure path leaves the earlier advisory in place.
advice_node_keeps_advisory(st, resps) ==
  LET s1 == [st EXCEPT !.last_node = "advice"]
      r == _llm_json(resps, LlmMaxTries)
  IN
  IF ~r.ok
  THEN [messages |-> add_assistant(s1, "Send crop + stage + location").messages,
        advisory |-> st.advisory, last_node |-> "advice"]
  ELSE [advisory |-> Adv("advice", st.turn_count),
        messages |-> compact_messages(add_assistant(s1, "headline")).messages,
        last_node |-> "advice"]

advice_node(st, resps) ==
  LET s1 == [st EXCEPT !.last_node = "advice"]
      r == _llm_json(resps, LlmMaxTries)
  IN
  IF ~r.ok
  THEN [messages |-> add_assistant(s1, "Send crop + stage + location").messages,
        advisory |-> NoAdv, last_node |-> "advice"]
  ELSE [advisory |-> Adv("advice", st.turn_count),
        messages |-> compact_messages(add_assistant(s1, "headline")).messages,
        last_node |-> "advice"]

\* ------------------------------------------------------------------- state
Tasks == {"handler", "job"}     \* the update handler in progress; the digest job
ChatId == "c1"

VARIABLES
  store,    \* the session store's entry for ChatId: [kind, val]
  now,      \* the UTC clock, in hours
  pc,       \* per task: "idle", the graph node about to run, or "end"
  arg,      \* per task: the GraphState object the handler passed to run_turn
  s,        \* per task: the working state advanced by the graph
  hist,     \* per task: what the turn has done so far
  out,      \* per task: how the task's last run_turn ended
  budget,   \* turns and clock advances still explored; job scheduled
  fin,      \* input of the pure function under check (function specifications)
  fout      \* its output

vars == <<store, now, pc, arg, s, hist, out, budget, fin, fout>>

NoHist ==
  [pre |-> GraphState(ChatId), text |-> EmptyText, steps |-> 0, routes |-> 0,
   trace |-> <<>>, all_ok |-> TRUE, failed |-> {}, recovered |-> 0,
   last |-> "none", last_ok |-> TRUE, gen |-> "none"]
NoOut == [status |-> "none", val |-> GraphState(ChatId)]
NoFun == [op |-> "none"]

\* StateStore.load: the stored state, or a fresh one when there is no entry or
\* the entry does not parse.
load(chat_id) == IF store.kind = "ok" THEN store.val ELSE GraphState(chat_id)
Saved(st) == [kind |-> "ok", val |-> st]

\* A copy that shares the message list with the original (deep=False).
model_copy_shallow(st) == [val |-> st, shares_messages |-> TRUE]

\* Pydantic's model_copy(deep=True): no object is shared with the original.
model_copy_deep(st) == [val |-> st, shares_messages |-> FALSE]

\* ----------------------------------------------------------------- inputs
FreePlain == Txt("free", "plain", NoneNum, NoneNum)
FreeReco == Txt("free", "reco", NoneNum, NoneNum)
FreeLatLon == Txt("free", "plain", 19, 73)
StageFlowering == Txt("stage", "Flowering", NoneNum, NoneNum)
StageUnknown == Txt("stage", "unknown", NoneNum, NoneNum)
StageBogus == Txt("stage", "Bogus", NoneNum, NoneNum)
UserTexts == {FreePlain, FreeReco, FreeLatLon, StageFlowering, StageUnknown, StageBogus}

UProfile ==
  [IntakeExtraction EXCEPT !.farmer_name = " Ramesh ", !.crop = "Rice",
     !.stage = "Germination", !.land_size = 2, !.land_unit = " acre ",
     !.location_text = " Pune "]
UNoLocation == [UProfile EXCEPT !.location_text = NoneStr]
UNoCrop == [UProfile EXCEPT !.crop = " ", !.stage = "Bogus"]
USymptoms ==
  [IntakeExtraction EXCEPT !.symptoms = <<"Yellow leaves", " ">>, !.urgency = " High "]
UStageUnknown == [IntakeExtraction EXCEPT !.stage = "Unknown", !.farmer_name = ""]
Updates == {IntakeExtraction, UProfile, UNoLocation, UNoCrop, USymptoms, UStageUnknown}

\* What the model provider may answer to the (at most two) requests of one call.
ExtractionReplies ==
  {<<JsonResp(TRUE, u), BadResp>> : u \in Updates}
    \cup {<<BadResp, JsonResp(TRUE, UProfile)>>, <<BadResp, BadResp>>,
          <<JsonResp(FALSE, UProfile), BadResp>>}
GenerationReplies ==
  {<<JsonResp(TRUE, IntakeExtraction), BadResp>>, <<BadResp, JsonResp(TRUE, IntakeExtraction)>>,
   <<BadResp, BadResp>>}
GeoOutcomes == {"raise", "none", "hit"}
Stages == {"flowering"}          \* stage buttons pressed
Locations == {<<19, 73>>}        \* locations shared

\* ------------------------------------------------------------------ run_turn
\* The part of run_turn before the graph is invoked: copy, append, count, cap.
\* `caller` is the caller's object afterwards: an append through a shared list
\* shows in it, a rebinding of the copy's field does not.
RunTurnEnter(state, text) ==
  LET cp == model_copy_deep(state)
      s1 == add_user(cp.val, text)
      s2 == [s1 EXCEPT !.turn_count = @ + 1]
  IN [work |-> compact_messages(s2),
      caller |-> IF cp.shares_messages THEN [state EXCEPT !.messages = s1.messages]
                 ELSE state]

Exclusive == \A u \in Tasks : pc[u] = "idle"

\* A handler (or the job) calls run_turn(state, text); the graph starts at intake.
Begin(t, state, text) ==
  /\ pc[t] = "idle"
  /\ budget.turns > 0
  /\ LET r == RunTurnEnter(state, text) IN
       /\ arg' = [arg EXCEPT ![t] = r.caller]
       /\ s' = [s EXCEPT ![t] = r.work]
  /\ hist' = [hist EXCEPT ![t] = [NoHist EXCEPT !.pre = state, !.text = text]]
  /\ pc' = [pc EXCEPT ![t] = "intake"]
  /\ out' = [out EXCEPT ![t] = NoOut]
  /\ budget' = [budget EXCEPT !.turns = @ - 1, !.job = TRUE]
  /\ UNCHANGED <<now, fin, fout>>

\* ---------------------------------------------------------------- handlers
on_text(text) ==
  /\ Begin("handler", load(ChatId), text)
  /\ UNCHANGED store

on_location(lat, lon) ==
  LET st0 == load(ChatId)
      st == [st0 EXCEPT !.context.lat = lat, !.context.lon = lon,
                        !.context.location_text = IF TruthyStr(@) THEN @ ELSE "lat,lon"]
  IN /\ Begin("handler", st, Txt("free", "plain", lat, lon))
     /\ store' = Saved(st)

on_photo ==
  LET st == [load(ChatId) EXCEPT !.last_image = "photo", !.image_diagnosis = NoneStr]
  IN /\ Begin("handler", st, FreePlain)
     /\ store' = Saved(st)

on_button_lang ==
  LET st == [load(ChatId) EXCEPT !.context.language = "hi"]
  IN /\ Begin("handler", st, ACTION_SET_LANG)
     /\ store' = Saved(st)

on_button_stage(stage) ==
  LET st == [load(ChatId) EXCEPT !.context.stage = stage, !.advisory = NoAdv]
  IN /\ Begin("handler", st, Txt("stage", stage, NoneNum, NoneNum))
     /\ store' = Saved(st)

on_button_action(marker) ==
  LET st == [load(ChatId) EXCEPT !.advisory = NoAdv]
  IN /\ Begin("handler", st, marker)
     /\ store' = Saved(st)

reset_cmd ==
  /\ pc["handler"] = "idle"
  /\ store' = Saved(GraphState(ChatId))
  /\ UNCHANGED <<now, pc, arg, s, hist, out, budget, fin, fout>>

_digest_job ==
  /\ budget.job
  /\ Begin("job", load(ChatId), ACTION_DIGEST)
  /\ UNCHANGED store

\* -------------------------------------------------------------- graph steps
Terminal == {"ask", "crop_reco", "buy", "advice"}
NonTerminal == {"vision", "weather", "web", "schemes", "market"}

\* One superstep of task t: node `name` hands back `upd`; `ok` tells whether
\* every external call it made succeeded, `gen` how its generation call ended
\* ("none" when the node makes no such call).
AdvanceGen(t, name, upd, next, ok, gen) ==
  /\ hist[t].steps < RecursionLimit
  /\ (ok /\ name \in hist[t].failed) => hist[t].recovered < MaxRecoveries
  /\ s' = [s EXCEPT ![t] = ApplyUpdate(s[t], upd)]
  /\ pc' = [pc EXCEPT ![t] = next]
  /\ hist' = [hist EXCEPT ![t].steps = @ + 1,
                          ![t].routes = IF name = "plan" THEN @ + 1 ELSE @,
                          ![t].trace = IF name \in Terminal \cup NonTerminal
                                       THEN Append(@, name) ELSE @,
                          ![t].all_ok = @ /\ ok,
                          ![t].failed = IF ok THEN @ ELSE @ \cup {name},
                          ![t].recovered = IF ok /\ name \in hist[t].failed
                                           THEN @ + 1 ELSE @,
                          ![t].last = name,
                          ![t].last_ok = ok,
                          ![t].gen = gen]
  /\ UNCHANGED <<store, now, arg, out, budget, fin, fout>>

Advance(t, name, upd, next, ok) == AdvanceGen(t, name, upd, next, ok, "none")

GenOutcome(resps) == IF _llm_json(resps, LlmMaxTries).ok THEN "ok" ELSE "failed"

CallsExtraction(st) ==
  LET u == _last_user_text(st)
  IN ~TruthyStr(_extract_stage_from_text(u)) /\ ~_is_action_message(u)

\* How intake's extraction ended: the call gave up, or its data did not validate.
ExtractionOutcome(resps) ==
  LET r == _llm_json(resps, LlmMaxTries)
  IN IF r.ok /\ r.data.valid THEN "ok" ELSE "failed"

Intake(t) ==
  /\ pc[t] = "intake"
  /\ IF CallsExtraction(s[t])
     THEN \E resps \in ExtractionReplies :
            AdvanceGen(t, "intake", intake_node(s[t], resps), "plan",
                       resps[1].json /\ resps[1].valid, ExtractionOutcome(resps))
     ELSE Advance(t, "intake", intake_node(s[t], <<BadResp, BadResp>>), "plan", TRUE)

\* plan_node, then the conditional edge: _route on the state plan has written.
Plan(t) ==
  /\ pc[t] = "plan"
  /\ Advance(t, "plan", plan_node(s[t]),
             _route(ApplyUpdate(s[t], plan_node(s[t])), now), TRUE)

\* An ask step wired back to the planner instead of to END.
AskThenPlan(t) ==
  /\ pc[t] = "ask"
  /\ Advance(t, "ask", ask_node(s[t]), "plan", TRUE)

Ask(t) ==
  /\ pc[t] = "ask"
  /\ Advance(t, "ask", ask_node(s[t]), "end", TRUE)

CropReco(t) ==
  /\ pc[t] = "crop_reco"
  /\ \E geo \in GeoOutcomes, wx_ok \in BOOLEAN, crops_ok \in BOOLEAN,
        resps \in GenerationReplies :
       AdvanceGen(t, "crop_reco",
                  crop_reco_node(s[t], now, geo, wx_ok, crops_ok, resps),
                  "end", geo = "hit" /\ wx_ok /\ crops_ok /\ resps[1].json,
                  GenOutcome(resps))

Buy(t) ==
  /\ pc[t] = "buy"
  /\ \E n_urls \in {0, 6} : Advance(t, "buy", buy_node(s[t], n_urls), "end", TRUE)

Vision(t) ==
  /\ pc[t] = "vision"
  /\ \E file_ok \in BOOLEAN, model_ok \in BOOLEAN :
       Advance(t, "vision", vision_node(s[t], file_ok, model_ok), "plan",
               file_ok /\ model_ok)

Weather(t) ==
  /\ pc[t] = "weather"
  /\ \E geo \in GeoOutcomes, wx_ok \in BOOLEAN :
       Advance(t, "weather", weather_node(s[t], now, geo, wx_ok), "plan", wx_ok)

Web(t) ==
  /\ pc[t] = "web"
  /\ \E ok \in BOOLEAN : Advance(t, "web", web_node(s[t], now, ok), "plan", ok)

Schemes(t) ==
  /\ pc[t] = "schemes"
  /\ IF TruthyStr(s[t].context.location_text)
     THEN \E ok \in BOOLEAN :
            Advance(t, "schemes", schemes_node(s[t], now, ok), "plan", ok)
     ELSE Advance(t, "schemes", schemes_node(s[t], now, TRUE), "plan", TRUE)

Market(t) ==
  /\ pc[t] = "market"
  /\ \E ok \in BOOLEAN : Advance(t, "market", market_node(s[t], now, ok), "plan", ok)

Advice(t) ==
  /\ pc[t] = "advice"
  /\ \E resps \in GenerationReplies :
       AdvanceGen(t, "advice", advice_node(s[t], resps), "end", resps[1].json,
                  GenOutcome(resps))

\* The graph reached END: run_turn merges the graph's output into the dump of
\* its working copy and returns it; the caller saves it at once.
Return(t) ==
  /\ pc[t] = "end"
  /\ LET base == RunTurnEnter(hist[t].pre, hist[t].text).work
         new_state == _deep_merge(base, s[t])
     IN /\ out' = [out EXCEPT ![t] = [status |-> "returned", val |-> new_state]]
        /\ store' = Saved(new_state)
  /\ pc' = [pc EXCEPT ![t] = "reply"]
  /\ UNCHANGED <<now, arg, s, hist, budget, fin, fout>>

\* The runtime gives up after RecursionLimit supersteps: run_turn raises, the
\* caller logs the exception, and nothing is saved.
Overflow(t) ==
  /\ pc[t] \notin {"idle", "end", "reply"}
  /\ hist[t].steps = RecursionLimit
  /\ out' = [out EXCEPT ![t] = [status |-> "raised", val |-> s[t]]]
  /\ pc' = [pc EXCEPT ![t] = "reply"]
  /\ UNCHANGED <<store, now, arg, s, hist, budget, fin, fout>>

\* The caller sends its reply (the advisory or the error text) and returns:
\* its local objects are gone.
Finish(t) ==
  /\ pc[t] = "reply"
  /\ pc' = [pc EXCEPT ![t] = "idle"]
  /\ arg' = [arg EXCEPT ![t] = GraphState(ChatId)]
  /\ s' = [s EXCEPT ![t] = GraphState(ChatId)]
  /\ hist' = [hist EXCEPT ![t] = NoHist]
  /\ out' = [out EXCEPT ![t] = NoOut]
  /\ UNCHANGED <<store, now, budget, fin, fout>>

\* Time passes between turns.
Elapse == {13}
Tick ==
  /\ Exclusive
  /\ budget.ticks > 0
  /\ \E d \in Elapse : now' = now + d
  /\ budget' = [budget EXCEPT !.ticks = @ - 1]
  /\ UNCHANGED <<store, pc, arg, s, hist, out, fin, fout>>

Step(t) ==
  \/ Intake(t) \/ Plan(t) \/ Ask(t) \/ CropReco(t) \/ Buy(t) \/ Vision(t)
  \/ Weather(t) \/ Web(t) \/ Schemes(t) \/ Market(t) \/ Advice(t)
  \/ Return(t) \/ Overflow(t) \/ Finish(t)

Start ==
  \/ \E text \in UserTexts : on_text(text)
  \/ \E ll \in Locations : on_location(ll[1], ll[2])
  \/ on_photo
  \/ on_button_lang
  \/ \E stage \in Stages : on_button_stage(stage)
  \/ \E m \in {ACTION_CROP_RECO, ACTION_BUY, ACTION_SCHEMES, ACTION_MARKET} :
       on_button_action(m)
  \/ _digest_job

InitTasks(turns, job) ==
  /\ now = 0
  /\ pc = [t \in Tasks |-> "idle"]
  /\ arg = [t \in Tasks |-> GraphState(ChatId)]
  /\ s = [t \in Tasks |-> GraphState(ChatId)]
  /\ hist = [t \in Tasks |-> NoHist]
  /\ out = [t \in Tasks |-> NoOut]
  /\ budget = [turns |-> turns, ticks |-> MaxTicks, job |-> job]

\* A new deployment: the store holds no entry.
Init ==
  /\ store = [kind |-> "absent", val |-> GraphState(ChatId)]
  /\ InitTasks(MaxTurns, FALSE)
  /\ fin = NoFun
  /\ fout = NoFun

\* Turns are taken one at a time (the single-writer assumption of the design).
Next ==
  \/ Exclusive /\ Start
  \/ Exclusive /\ reset_cmd
  \/ \E t \in Tasks : Step(t)
  \/ Tick

Spec == Init /\ [][Next]_vars

\* ------------------------------------------------- a long-running session
\* One whole turn that ends at the first step routed to, as run_turn computes
\* it: enter, intake, plan, the terminal step, merge.
TerminalTurn(p, text, iresps, gresps, t) ==
  LET w0 == RunTurnEnter(p, text).work
      w1 == ApplyUpdate(w0, intake_node(w0, iresps))
      w2 == ApplyUpdate(w1, plan_node(w1))
      r == _route(w2, t)
      w3 == CASE r = "ask" -> ApplyUpdate(w2, ask_node(w2))
              [] r = "advice" -> ApplyUpdate(w2, advice_node(w2, gresps))
              [] r = "buy" -> ApplyUpdate(w2, buy_node(w2, 6))
              [] OTHER -> w2
  IN _deep_merge(w0, w3)

\* The farmer's first message gives name, crop, land size and coordinates.
UNoStage == [UNoLocation EXCEPT !.stage = NoneStr]

\* The session after n turns: the first message is answered with the stage
\* question, every later one states the stage and is answered with advice.
RECURSIVE OldSession(_)
OldSession(n) ==
  IF n = 0 THEN GraphState(ChatId)
  ELSE IF n = 1
  THEN TerminalTurn(GraphState(ChatId), FreeLatLon,
                    <<JsonResp(TRUE, UNoStage), BadResp>>, <<BadResp, BadResp>>, 0)
  ELSE TerminalTurn(OldSession(n - 1), StageFlowering, <<BadResp, BadResp>>,
                    <<JsonResp(TRUE, IntakeExtraction), BadResp>>, 0)

\* The digest job of the session has been scheduled by its earlier turns.
InitLog ==
  /\ store = Saved(OldSession(OldTurns))
  /\ InitTasks(MaxLogTurns, TRUE)
  /\ fin = NoFun
  /\ fout = NoFun

SpecLog == InitLog /\ [][Next]_vars

\* ------------------------------------------- handlers and the digest job
\* The job queue runs _digest_job whenever it is due, an update handler in
\* progress or not; nothing in the handlers or the job takes a lock.
NextConc ==
  \/ Start
  \/ reset_cmd
  \/ \E t \in Tasks : Step(t)
  \/ Tick

SpecConc == Init /\ [][NextConc]_vars

\* ------------------------------------------------ the routing function alone
RouteTexts ==
  {FreePlain, FreeReco, StageFlowering, StageBogus, ACTION_BUY, ACTION_CROP_RECO,
   ACTION_SCHEMES, ACTION_MARKET, ACTION_DIGEST}

RouteContexts ==
  {[FarmerContext EXCEPT !.farmer_name = nl[1], !.land_size = nl[2], !.crop = c,
                         !.stage = sg, !.lat = ll[1], !.lon = ll[2],
                         !.location_text = lt] :
     nl \in {<<"Ramesh", 2>>, <<NoneStr, 2>>, <<"Ramesh", NoneNum>>},
     c \in {NoneStr, "rice"}, sg \in {"unknown", "flowering"},
     ll \in {<<NoneNum, NoneNum>>, <<19, 73>>, <<0, 73>>}, lt \in {NoneStr, "Pune"}}

\* The clock of the routing decision, and snapshots taken one hour before it.
RouteClock == 13
Fresh(q) == Snap(RouteClock - 1, q)
AllFresh ==
  [weather |-> Fresh("weather"), web |-> Fresh("web"), schemes |-> Fresh("schemes"),
   market |-> Fresh("market")]
RouteSnapshots ==
  {AllFresh,
   [weather |-> NoSnap, web |-> NoSnap, schemes |-> NoSnap, market |-> NoSnap],
   [AllFresh EXCEPT !.weather = Snap(0, "weather")],
   [AllFresh EXCEPT !.weather = Snap(BadTs, "weather")],
   [AllFresh EXCEPT !.web = NoSnap],
   [AllFresh EXCEPT !.schemes = NoSnap],
   [AllFresh EXCEPT !.market = NoSnap]}

\* last_node, image and its diagnosis, symptoms.
RouteExtras ==
  {[last_node |-> "plan", last_image |-> NoneStr, image_diagnosis |-> NoneStr,
    symptoms |-> <<>>],
   [last_node |-> "crop_reco", last_image |-> NoneStr, image_diagnosis |-> NoneStr,
    symptoms |-> <<>>],
   [last_node |-> "plan", last_image |-> "photo", image_diagnosis |-> NoneStr,
    symptoms |-> <<>>],
   [last_node |-> "plan", last_image |-> "photo", image_diagnosis |-> "diagnosis",
    symptoms |-> <<>>],
   [last_node |-> "plan", last_image |-> NoneStr, image_diagnosis |-> NoneStr,
    symptoms |-> <<"yellow leaves">>]}

RouteStates ==
  {[GraphState(ChatId) EXCEPT
      !.messages = <<Msg("user", text, 1), Msg("assistant", Reply("Name?"), 1)>>,
      !.turn_count = 1, !.context = c, !.last_node = x.last_node,
      !.last_image = x.last_image, !.image_diagnosis = x.image_diagnosis,
      !.observation.symptoms = x.symptoms,
      !.weather = sn.weather, !.web = sn.web, !.schemes = sn.schemes,
      !.market = sn.market] :
     text \in RouteTexts, c \in RouteContexts, x \in RouteExtras, sn \in RouteSnapshots}

InitRoute ==
  /\ store = [kind |-> "absent", val |-> GraphState(ChatId)]
  /\ InitTasks(0, FALSE)
  /\ fin \in {[op |-> "route", st |-> st, t |-> RouteClock] : st \in RouteStates}
  /\ fout = NoFun

ApplyRoute ==
  /\ fin.op = "route"
  /\ fout = NoFun
  /\ fout' = [op |-> "route", step |-> _route(fin.st, fin.t), st |-> fin.st]
  /\ UNCHANGED <<store, now, pc, arg, s, hist, out, budget, fin>>

SpecRoute == InitRoute /\ [][ApplyRoute]_vars

\* --------------------------------------------------- the merge engine alone
CFull ==
  [FarmerContext EXCEPT !.farmer_name = "Ramesh", !.crop = "rice", !.stage = "flowering",
     !.land_size = 2, !.land_unit = "acre", !.location_text = "Pune", !.lat = 19,
     !.lon = 73, !.sowing_date = "2024-06-01", !.irrigation = "drip",
     !.soil_type = "loam", !.notes = "organic"]
MergeContexts ==
  {FarmerContext, CFull, [CFull EXCEPT !.crop = NoneStr, !.land_size = NoneNum],
   [FarmerContext EXCEPT !.farmer_name = "Ramesh", !.stage = "sowing"]}
MergeObservations ==
  {Observation,
   [Observation EXCEPT !.symptoms = <<"yellow leaves">>, !.urgency = "medium"],
   [Observation EXCEPT !.symptoms = <<"Wilting", "spots">>, !.pests_seen = <<"Aphids">>,
                       !.urgency = "high"]}
UBlanks ==
  [IntakeExtraction EXCEPT !.farmer_name = " ", !.crop = "", !.stage = " ",
     !.land_unit = "", !.location_text = " ", !.sowing_date = "", !.irrigation = " ",
     !.soil_type = "", !.notes = " ", !.urgency = ""]
UPests ==
  [IntakeExtraction EXCEPT !.pests_seen = <<"aphids", "Borer">>,
     !.symptoms = <<"YELLOW LEAVES">>, !.urgency = "Medium", !.notes = "rainfed"]
UDupes ==
  [IntakeExtraction EXCEPT !.symptoms = <<"Spots", "spots", " Wilting ">>,
     !.pests_seen = <<"Borer", "borer">>, !.urgency = "low"]
UUrgent ==
  [IntakeExtraction EXCEPT !.symptoms = <<"spots">>, !.urgency = "critical"]
MergeUpdates == Updates \cup {UBlanks, UPests, UNoStage, UDupes, UUrgent}

\* `start` is the observation the session held before the first merge and `n`
\* the number of the merge about to be applied.
InitMerge ==
  /\ store = [kind |-> "absent", val |-> GraphState(ChatId)]
  /\ InitTasks(0, FALSE)
  /\ fin \in {[op |-> "merge", C |-> c, O |-> o, U |-> u, start |-> o, n |-> 1] :
                c \in MergeContexts, o \in MergeObservations, u \in MergeUpdates}
  /\ fout = NoFun

ApplyMerge ==
  /\ fin.op = "merge"
  /\ fout = NoFun
  /\ fout' = [op |-> "merge", ctx |-> _merge_context(fin.C, fin.U),
              obs |-> _merge_observation(fin.O, fin.U)]
  /\ UNCHANGED <<store, now, pc, arg, s, hist, out, budget, fin>>

\* The next turn's extraction is merged into what the last merge produced.
MergeAgain ==
  /\ fin.op = "merge"
  /\ fout.op = "merge"
  /\ fin.n < MaxMerges
  /\ \E u \in MergeUpdates :
       fin' = [fin EXCEPT !.C = fout.ctx, !.O = fout.obs, !.U = u, !.n = @ + 1]
  /\ fout' = NoFun
  /\ UNCHANGED <<store, now, pc, arg, s, hist, out, budget>>

SpecMerge == InitMerge /\ [][ApplyMerge \/ MergeAgain]_vars

\* ------------------------------------------------------- the coercion layer
\* A JSON value as the generator may hand it over.
JNull == [shape |-> "null"]
JBool(b) == [shape |-> "bool", b |-> b]
JNum(n) == [shape |-> "number", n |-> n]
JStr(str) == [shape |-> "string", s |-> str]
JList(items) == [shape |-> "list", items |-> items]
JObj(fields) == [shape |-> "object", fields |-> fields]

\* bool(v), as `v or default` and `if v` read it.
Truthy(v) ==
  CASE v.shape = "null" -> FALSE
    [] v.shape = "bool" -> v.b
    [] v.shape = "number" -> v.n # 0
    [] v.shape = "string" -> v.s # ""
    [] v.shape = "list" -> v.items # <<>>
    [] v.shape = "object" -> DOMAIN v.fields # {}
    [] v.shape = "dump" -> TRUE

OrElse(v, default) == IF Truthy(v) THEN v ELSE default

\* str(v); containers print as a bracketed text that is never blank.
PyStr(v) ==
  CASE v.shape = "null" -> "None"
    [] v.shape = "bool" -> (IF v.b THEN "True" ELSE "False")
    [] v.shape = "number" -> (CASE v.n = 0 -> "0" [] v.n = 3 -> "3" [] OTHER -> "7")
    [] v.shape = "string" -> v.s
    [] v.shape = "list" -> "[..]"
    [] v.shape = "object" -> "{..}"

\* str.split / re.split on single separator characters: the pieces between
\* them, empty pieces included.
RECURSIVE SplitAcc(_, _, _)
SplitAcc(str, seps, piece) ==
  IF str = "" THEN <<piece>>
  ELSE LET ch == SubSeq(str, 1, 1)
           rest == SubSeq(str, 2, Len(str))
       IN IF ch \in seps THEN <<piece>> \o SplitAcc(rest, seps, "")
          ELSE SplitAcc(rest, seps, piece \o ch)

Split(str, seps) == SplitAcc(str, seps, "")

NonBlankStripped(strs) ==
  SelectSeq([i \in 1..Len(strs) |-> Strip(strs[i])], LAMBDA x : x # "")

Take(seq, n) == SubSeq(seq, 1, IF Len(seq) < n THEN Len(seq) ELSE n)

\* data.get(key): the value, or None for a key the object lacks.
Get(data, key) == IF key \in DOMAIN data.fields THEN data.fields[key] ELSE JNull

\* The four lines safe_parse_advisory spends on each list field.
AdvisoryList(v, limit) ==
  LET v0 == OrElse(v, JList(<<>>))
      v1 == IF v0.shape = "string"
            THEN JList([i \in 1..Len(NonBlankStripped(Split(v0.s, {"\n"}))) |->
                          JStr(NonBlankStripped(Split(v0.s, {"\n"}))[i])])
            ELSE v0
      v2 == IF v1.shape # "list" THEN JList(<<>>) ELSE v1
  IN Take(NonBlankStripped([i \in 1..Len(v2.items) |-> PyStr(v2.items[i])]), limit)

NeedsReview(v) ==
  LET n1 == IF v.shape = "string"
            THEN JBool(Lower(Strip(v.s)) \in {"true", "yes", "1"}) ELSE v
  IN IF n1.shape # "bool" THEN FALSE ELSE n1.b

Confidence(v) ==
  LET conf == Lower(Strip(PyStr(OrElse(v, JStr("medium")))))
  IN IF conf \notin {"low", "medium", "high"} THEN "medium" ELSE conf

NoAdvisory ==
  [headline |-> "", stage |-> "unknown", actions_now |-> <<>>, watch_out_for |-> <<>>,
   rationale_brief |-> "", safety_notes |-> <<>>, confidence |-> "medium",
   needs_human_review |-> FALSE]

\* A coercion that lets a missing headline through as the empty text and
\* keeps every list entry.
safe_parse_advisory_lenient(data) ==
  IF data.shape # "object" THEN [raised |-> TRUE, val |-> NoAdvisory]
  ELSE [raised |-> FALSE,
        val |-> [headline |-> Strip(PyStr(OrElse(Get(data, "headline"), JStr("")))),
                 stage |-> Lower(Strip(PyStr(OrElse(Get(data, "stage"), JStr("unknown"))))),
                 actions_now |-> AdvisoryList(Get(data, "actions_now"), 50),
                 watch_out_for |-> AdvisoryList(Get(data, "watch_out_for"), 50),
                 rationale_brief |->
                   Strip(PyStr(OrElse(Get(data, "rationale_brief"), JStr("")))),
                 safety_notes |-> AdvisoryList(Get(data, "safety_notes"), 50),
                 confidence |-> Confidence(Get(data, "confidence")),
                 needs_human_review |-> NeedsReview(Get(data, "needs_human_review"))]]

safe_parse_advisory(data) ==
  IF data.shape # "object" THEN [raised |-> TRUE, val |-> NoAdvisory]
  ELSE LET headline == Strip(PyStr(OrElse(Get(data, "headline"), JStr(""))))
           stage == Lower(Strip(PyStr(OrElse(Get(data, "stage"), JStr("unknown")))))
           rationale == Strip(PyStr(OrElse(Get(data, "rationale_brief"), JStr(""))))
       IN [raised |-> FALSE,
           val |-> [headline |-> IF headline = "" THEN "Advisory update" ELSE headline,
                    stage |-> IF stage = "" THEN "unknown" ELSE stage,
                    actions_now |-> AdvisoryList(Get(data, "actions_now"), 5),
                    watch_out_for |-> AdvisoryList(Get(data, "watch_out_for"), 3),
                    rationale_brief |-> IF Len(rationale) > 220
                                        THEN SubSeq(rationale, 1, 220) ELSE rationale,
                    safety_notes |-> AdvisoryList(Get(data, "safety_notes"), 2),
                    confidence |-> Confidence(Get(data, "confidence")),
                    needs_human_review |-> NeedsReview(Get(data, "needs_human_review"))]]

\* "*" stands for the bullet character of the pattern [\n(bullet)\-]+.
_split_lines_to_list(v) ==
  IF v.shape = "null" THEN <<>>
  ELSE IF v.shape = "list"
       THEN NonBlankStripped([i \in 1..Len(v.items) |-> PyStr(v.items[i])])
  ELSE IF v.shape = "string" THEN NonBlankStripped(Split(Strip(v.s), {"\n", "*", "-"}))
  ELSE <<>>

RECURSIVE FirstIssue(_, _)
FirstIssue(data, keys) ==
  IF keys = <<>> THEN "Unclear issue from image (needs clearer photo or more details)."
  ELSE LET v == Get(data, Head(keys))
       IN IF v.shape = "string" /\ Strip(v.s) # "" THEN Strip(v.s)
          ELSE FirstIssue(data, Tail(keys))

_coerce_image_diagnosis(data) ==
  [issue |-> FirstIssue(data, <<"issue", "problem", "disease", "diagnosis",
                                "issue_detected", "observation">>),
   likely_causes |->
     Take(_split_lines_to_list(OrElse(Get(data, "likely_causes"), Get(data, "causes"))), 3),
   actions_now |->
     Take(_split_lines_to_list(
            OrElse(OrElse(Get(data, "actions_now"), Get(data, "actions")),
                   Get(data, "remedy"))), 3),
   watch_out_for |->
     Take(_split_lines_to_list(
            OrElse(OrElse(Get(data, "watch_out_for"), Get(data, "precautions")),
                   Get(data, "watch"))), 2),
   confidence |-> Confidence(Get(data, "confidence")),
   needs_human_review |-> NeedsReview(Get(data, "needs_human_review"))]

\* buy_node from the provider's answer on (crop and location known), for an
\* English-speaking farmer: the bullets, the dictionary, the coerced advisory.
BuyBullets(urls) ==
  (IF Len(urls) >= 1 THEN <<"Seeds: " \o urls[1]>> ELSE <<>>)
  \o (IF Len(urls) >= 2 THEN <<"Seeds: " \o urls[2]>> ELSE <<>>)
  \o (IF Len(urls) >= 3 THEN <<"Fertilizer: " \o urls[3]>> ELSE <<>>)
  \o (IF Len(urls) >= 4 THEN <<"Fertilizer: " \o urls[4]>> ELSE <<>>)
  \o (IF Len(urls) >= 5 THEN <<"Crop protection: " \o urls[5]>> ELSE <<>>)
  \o (IF Len(urls) >= 6 THEN <<"Crop protection: " \o urls[6]>> ELSE <<>>)

BuyNote == "Tip: compare prices + seller ratings."

BuyData(stage, headline, ctx_urls) ==
  LET bullets == BuyBullets(Take(ctx_urls, 6))
      shown == IF Take(bullets, 6) # <<>> THEN Take(bullets, 6) ELSE <<BuyNote>>
  IN JObj([headline |-> JStr(headline),
           stage |-> JStr(IF TruthyStr(stage) THEN stage ELSE "pre_sowing"),
           actions_now |-> JList([i \in 1..Len(shown) |-> JStr(shown[i])]),
           watch_out_for |-> JList(<<JStr("Avoid unknown sellers; check expiry date.")>>),
           safety_notes |-> JList(<<>>),
           rationale_brief |-> JStr(BuyNote),
           confidence |-> JStr("high"),
           needs_human_review |-> JBool(FALSE)])

BuyAdvisory(stage, headline, ctx_urls) ==
  safe_parse_advisory(BuyData(stage, headline, ctx_urls))

\* ------------------------------------------ the coercion layer on its own
RECURSIVE Rep(_)
Rep(n) == IF n = 0 THEN "" ELSE "x" \o Rep(n - 1)

Strs(strs) == JList([i \in 1..Len(strs) |-> JStr(strs[i])])

BaseAdvisoryJson ==
  JObj([headline |-> JStr("Irrigate lightly today"),
        stage |-> JStr("Flowering"),
        actions_now |-> Strs(<<"Irrigate", "Scout for aphids">>),
        watch_out_for |-> Strs(<<"Heavy rain">>),
        rationale_brief |-> JStr("Dry spell ahead."),
        safety_notes |-> Strs(<<"Wear gloves">>),
        confidence |-> JStr("high"),
        needs_human_review |-> JBool(FALSE)])

With(base, key, v) ==
  JObj([k \in DOMAIN base.fields \cup {key} |-> IF k = key THEN v ELSE base.fields[k]])
Without(base, key) == JObj([k \in DOMAIN base.fields \ {key} |-> base.fields[k]])

TextJsonValues ==
  {JNull, JStr(""), JStr("   "), JStr("  Spray at dusk \n"), JNum(0), JNum(7),
   JBool(FALSE), JList(<<>>), JList(<<JStr("a")>>), JObj([x |-> JNull])}

ListJsonValues ==
  {JNull, JStr(""), JStr("a\n b \n\n  \nc"), JStr("a\nb\nc\nd\ne\nf\ng"),
   JStr("a * b - c -- d\ne"), JStr(" - only"),
   Strs(<<>>), Strs(<<"a", "b", "c">>), Strs(<<"a", "b", "c", "d", "e", "f", "g">>),
   Strs(<<" a ", "", "  ", "b", "c ", "d", "\t", "e", "f">>),
   Strs(<<"g", "f", "e", "d", "c", "b", "a">>),
   JList(<<JStr("a"), JNum(7), JNull, JBool(TRUE), JNum(0), JStr("b"), JStr("c")>>),
   JNum(3), JBool(TRUE), JObj([a |-> JStr("b")])}

ConfidenceJsonValues ==
  {JNull, JStr(""), JStr("low"), JStr(" HIGH "), JStr("Medium"), JStr("Certain"),
   JNum(3), JBool(TRUE), JList(<<JStr("high")>>)}

NeedsJsonValues ==
  {JNull, JBool(TRUE), JBool(FALSE), JStr(" Yes "), JStr("True"), JStr("1"), JStr("no"),
   JNum(3), JList(<<JBool(TRUE)>>)}

RationaleJsonValues ==
  {JStr(Rep(n)) : n \in {219, 220, 221, 300}}
  \cup {JStr("  " \o Rep(220) \o " \n"), JStr(Rep(219) \o " yz")}

NonObjectJsonValues ==
  {JNull, JStr("Irrigate lightly today"), JNum(7), JBool(TRUE), JList(<<>>),
   JList(<<BaseAdvisoryJson>>)}

AdvisoryInputs ==
  {BaseAdvisoryJson, JObj([x \in {} |-> JNull])}
  \cup NonObjectJsonValues
  \cup {Without(BaseAdvisoryJson, k) : k \in DOMAIN BaseAdvisoryJson.fields}
  \cup {With(BaseAdvisoryJson, k, v) :
          k \in {"headline", "stage", "rationale_brief"}, v \in TextJsonValues}
  \cup {With(BaseAdvisoryJson, k, v) :
          k \in {"actions_now", "watch_out_for", "safety_notes"}, v \in ListJsonValues}
  \cup {With(BaseAdvisoryJson, "confidence", v) : v \in ConfidenceJsonValues}
  \cup {With(BaseAdvisoryJson, "needs_human_review", v) : v \in NeedsJsonValues}
  \cup {With(BaseAdvisoryJson, "rationale_brief", v) : v \in RationaleJsonValues}

BaseDiagnosisJson ==
  JObj([issue |-> JStr("Leaf blight"),
        likely_causes |-> Strs(<<"Humidity">>),
        actions_now |-> Strs(<<"Remove affected leaves">>),
        watch_out_for |-> Strs(<<"Spread to stems">>),
        confidence |-> JStr("low"),
        needs_human_review |-> JBool(TRUE)])

DiagnosisInputs ==
  {BaseDiagnosisJson, JObj([x \in {} |-> JNull]),
   JObj([diagnosis |-> JStr(" Rust "), causes |-> JStr("a\nb\nc\nd"),
         remedy |-> JStr("p - q - r - s"), watch |-> JStr("* u * v * w")]),
   JObj([issue |-> JStr("  "), problem |-> JNum(7), observation |-> JStr("Spots"),
         likely_causes |-> Strs(<<>>), causes |-> Strs(<<"a", "b", "c", "d">>),
         actions |-> Strs(<<"p", "q", "r", "s">>),
         precautions |-> Strs(<<"u", "v", "w">>)])}
  \cup {Without(BaseDiagnosisJson, k) : k \in DOMAIN BaseDiagnosisJson.fields}
  \cup {With(BaseDiagnosisJson, k, v) :
          k \in {"likely_causes", "actions_now", "watch_out_for"}, v \in ListJsonValues}
  \cup {With(BaseDiagnosisJson, "issue", v) : v \in TextJsonValues}

ProviderUrls ==
  <<"https://shop/1", "https://shop/2", "https://shop/3", "https://shop/4",
    "https://shop/5", "https://shop/6", "https://shop/7", "https://shop/8">>

BuyInputs ==
  {[stage |-> st, urls |-> Take(ProviderUrls, n)] :
     st \in {NoneStr, "", "flowering"}, n \in 0..Len(ProviderUrls)}

InitCoerce ==
  /\ store = [kind |-> "absent", val |-> GraphState(ChatId)]
  /\ InitTasks(0, FALSE)
  /\ fin \in {[op |-> "advisory", data |-> d] : d \in AdvisoryInputs}
             \cup {[op |-> "diagnosis", data |-> d] : d \in DiagnosisInputs}
             \cup {[op |-> "buy", data |-> d] : d \in BuyInputs}
  /\ fout = NoFun

ApplyAdvisory ==
  /\ fin.op = "advisory"
  /\ fout = NoFun
  /\ fout' = [op |-> "advisory", raised |-> safe_parse_advisory(fin.data).raised,
              val |-> safe_parse_advisory(fin.data).val]
  /\ UNCHANGED <<store, now, pc, arg, s, hist, out, budget, fin>>

ApplyDiagnosis ==
  /\ fin.op = "diagnosis"
  /\ fout = NoFun
  /\ fout' = [op |-> "diagnosis", raised |-> FALSE,
              val |-> _coerce_image_diagnosis(fin.data)]
  /\ UNCHANGED <<store, now, pc, arg, s, hist, out, budget, fin>>

ApplyBuy ==
  /\ fin.op = "buy"
  /\ fout = NoFun
  /\ LET adv == BuyAdvisory(fin.data.stage, "Buy inputs for Rice (Pune)", fin.data.urls)
     IN fout' = [op |-> "buy", raised |-> adv.raised, val |-> adv.val]
  /\ UNCHANGED <<store, now, pc, arg, s, hist, out, budget, fin>>

SpecCoerce == InitCoerce /\ [][ApplyAdvisory \/ ApplyDiagnosis \/ ApplyBuy]_vars

\* ------------------------------------------------ the session store's load
\* What model_dump wrote for a state: an object that validates back to it.
JDump(st) == [shape |-> "dump", val |-> st]
\* Text that is not JSON.
Unparsable == [shape |-> "unparsable"]

\* A JSON string whose characters the model keeps in symbolic form (a message
\* text, a timestamp, an advisory's wording).
JText(x) == [shape |-> "string", text |-> x]

OptStr(x) == IF x = NoneStr THEN JNull ELSE JStr(x)
\* A dump that writes null for a number that is zero.
OptNumOrNone(x) == IF x = NoneNum \/ x = 0 THEN JNull ELSE JNum(x)

OptNum(x) == IF x = NoneNum THEN JNull ELSE JNum(x)

\* model_dump(mode="json"), field by field: None becomes null, a nested model
\* an object, a list a list.
dump_context(c) ==
  JObj([k \in DOMAIN c |->
          IF k \in {"land_size", "lat", "lon"} THEN OptNum(c[k])
          ELSE IF k \in {"stage", "language"} THEN JStr(c[k])
          ELSE OptStr(c[k])])

dump_observation(o) ==
  JObj([symptoms |-> Strs(o.symptoms), pests_seen |-> Strs(o.pests_seen),
        urgency |-> JStr(o.urgency)])

dump_snapshot(x) ==
  IF ~x.some THEN JNull
  ELSE JObj([fetched_at_utc |-> JText(x.fetched_at), query |-> JStr(x.query)])

dump_advisory(a) ==
  IF ~a.some THEN JNull
  ELSE JObj([headline |-> JText(a.by), turn |-> JNum(a.made_in)])

\* The log keeps plain dictionaries, dumped key by key (`at` and the
\* advisory's `turn` are the model's bookkeeping, carried along with them).
dump_message(m) == JObj([role |-> JStr(m.role), content |-> JText(m.content), at |-> JNum(m.at)])

model_dump(st) ==
  JObj([chat_id |-> JStr(st.chat_id),
        turn_count |-> JNum(st.turn_count),
        last_node |-> OptStr(st.last_node),
        messages |-> JList([i \in 1..Len(st.messages) |-> dump_message(st.messages[i])]),
        context |-> dump_context(st.context),
        observation |-> dump_observation(st.observation),
        weather |-> dump_snapshot(st.weather),
        web |-> dump_snapshot(st.web),
        schemes |-> dump_snapshot(st.schemes),
        market |-> dump_snapshot(st.market),
        last_image |-> IF st.last_image = NoneStr THEN JNull
                       ELSE JObj([file_path |-> JStr(st.last_image)]),
        image_diagnosis |-> IF st.image_diagnosis = NoneStr THEN JNull
                            ELSE JObj([issue |-> JStr(st.image_diagnosis)]),
        advisory |-> dump_advisory(st.advisory)])

\* Validation of one field of an object: its shape ("absent" for a missing
\* key) against what the field's type admits, and the value it yields.
ShapeOf(o, k) == IF k \in DOMAIN o.fields THEN o.fields[k].shape ELSE "absent"
ParseStr(o, k, default) == IF ShapeOf(o, k) = "string" THEN o.fields[k].s ELSE default
ParseNum(o, k, default) == IF ShapeOf(o, k) = "number" THEN o.fields[k].n ELSE default
ParseStrs(o, k) ==
  IF ShapeOf(o, k) = "list"
  THEN [i \in 1..Len(o.fields[k].items) |-> o.fields[k].items[i].s] ELSE <<>>
StrsOk(o, k) ==
  \/ ShapeOf(o, k) = "absent"
  \/ /\ ShapeOf(o, k) = "list"
     /\ \A i \in 1..Len(o.fields[k].items) : o.fields[k].items[i].shape = "string"

validate_context(v) ==
  [ok |-> /\ \A k \in {"farmer_name", "crop", "land_unit", "location_text", "sowing_date",
                        "irrigation", "soil_type", "notes"} :
               ShapeOf(v, k) \in {"absent", "null", "string"}
          /\ \A k \in {"stage", "language"} : ShapeOf(v, k) \in {"absent", "string"}
          /\ \A k \in {"land_size", "lat", "lon"} :
               ShapeOf(v, k) \in {"absent", "null", "number"},
   val |-> [k \in DOMAIN FarmerContext |->
              IF k \in {"land_size", "lat", "lon"} THEN ParseNum(v, k, NoneNum)
              ELSE IF k \in {"stage", "language"} THEN ParseStr(v, k, FarmerContext[k])
              ELSE ParseStr(v, k, NoneStr)]]

validate_observation(v) ==
  [ok |-> /\ StrsOk(v, "symptoms")
          /\ StrsOk(v, "pests_seen")
          /\ ShapeOf(v, "urgency") \in {"absent", "string"},
   val |-> [symptoms |-> ParseStrs(v, "symptoms"), pests_seen |-> ParseStrs(v, "pests_seen"),
            urgency |-> ParseStr(v, "urgency", "low")]]

\* An Optional nested model: null or a missing key give None.
validate_snapshot(o, k) ==
  IF ShapeOf(o, k) \in {"absent", "null"} THEN [ok |-> TRUE, val |-> NoSnap]
  ELSE IF ShapeOf(o, k) # "object" THEN [ok |-> FALSE, val |-> NoSnap]
  ELSE [ok |-> /\ ShapeOf(o.fields[k], "fetched_at_utc") = "string"
               /\ ShapeOf(o.fields[k], "query") \in {"absent", "string"},
        val |-> [some |-> TRUE,
                 fetched_at |-> IF ShapeOf(o.fields[k], "fetched_at_utc") = "string"
                                THEN o.fields[k].fields["fetched_at_utc"].text ELSE 0,
                 query |-> ParseStr(o.fields[k], "query", "")]]

validate_advisory(o) ==
  IF ShapeOf(o, "advisory") \in {"absent", "null"} THEN [ok |-> TRUE, val |-> NoAdv]
  ELSE IF ShapeOf(o, "advisory") # "object" THEN [ok |-> FALSE, val |-> NoAdv]
  ELSE [ok |-> /\ ShapeOf(o.fields["advisory"], "headline") = "string"
               /\ ShapeOf(o.fields["advisory"], "turn") = "number",
        val |-> [some |-> TRUE,
                 by |-> IF ShapeOf(o.fields["advisory"], "headline") = "string"
                        THEN o.fields["advisory"].fields["headline"].text ELSE "",
                 made_in |-> ParseNum(o.fields["advisory"], "turn", 0)]]

\* An Optional nested model the state keeps as one text (ImageAsset by its
\* file path, ImageDiagnosis by its issue).
validate_nested_text(o, k, inner) ==
  IF ShapeOf(o, k) \in {"absent", "null"} THEN [ok |-> TRUE, val |-> NoneStr]
  ELSE IF ShapeOf(o, k) # "object" THEN [ok |-> FALSE, val |-> NoneStr]
  ELSE [ok |-> ShapeOf(o.fields[k], inner) = "string",
        val |-> ParseStr(o.fields[k], inner, NoneStr)]

validate_messages(o) ==
  IF ShapeOf(o, "messages") = "absent" THEN [ok |-> TRUE, val |-> <<>>]
  ELSE IF ShapeOf(o, "messages") # "list" THEN [ok |-> FALSE, val |-> <<>>]
  ELSE LET items == o.fields["messages"].items
           good == \A i \in 1..Len(items) :
                     /\ items[i].shape = "object"
                     /\ ShapeOf(items[i], "role") = "string"
                     /\ ShapeOf(items[i], "content") = "string"
                     /\ ShapeOf(items[i], "at") = "number"
       IN [ok |-> good,
           val |-> IF good
                   THEN [i \in 1..Len(items) |->
                           Msg(items[i].fields["role"].s, items[i].fields["content"].text,
                               items[i].fields["at"].n)]
                   ELSE <<>>]

\* GraphState.model_validate on a parsed value: every field has a default and
\* unknown keys are ignored, so only a value that is no object, or a known key
\* with a value its type does not admit, fails.
model_validate(v) ==
  IF v.shape = "dump" THEN [raised |-> FALSE, val |-> v.val]
  ELSE IF v.shape # "object" THEN [raised |-> TRUE, val |-> GraphState("")]
  ELSE LET ctx == IF ShapeOf(v, "context") = "object" THEN validate_context(v.fields["context"])
                  ELSE [ok |-> ShapeOf(v, "context") = "absent", val |-> FarmerContext]
           obs == IF ShapeOf(v, "observation") = "object"
                  THEN validate_observation(v.fields["observation"])
                  ELSE [ok |-> ShapeOf(v, "observation") = "absent", val |-> Observation]
           msgs == validate_messages(v)
           img == validate_nested_text(v, "last_image", "file_path")
           diag == validate_nested_text(v, "image_diagnosis", "issue")
           adv == validate_advisory(v)
           ok == /\ ShapeOf(v, "chat_id") \in {"absent", "string"}
                 /\ ShapeOf(v, "turn_count") \in {"absent", "number"}
                 /\ ShapeOf(v, "last_node") \in {"absent", "null", "string"}
                 /\ ctx.ok /\ obs.ok /\ msgs.ok /\ img.ok /\ diag.ok /\ adv.ok
                 /\ \A k \in {"weather", "web", "schemes", "market"} : validate_snapshot(v, k).ok
       IN IF ~ok THEN [raised |-> TRUE, val |-> GraphState("")]
          ELSE [raised |-> FALSE,
                val |-> [chat_id |-> ParseStr(v, "chat_id", ""),
                         turn_count |-> ParseNum(v, "turn_count", 0),
                         last_node |-> ParseStr(v, "last_node", NoneStr),
                         messages |-> msgs.val,
                         context |-> ctx.val,
                         observation |-> obs.val,
                         weather |-> validate_snapshot(v, "weather").val,
                         web |-> validate_snapshot(v, "web").val,
                         schemes |-> validate_snapshot(v, "schemes").val,
                         market |-> validate_snapshot(v, "market").val,
                         last_image |-> img.val,
                         image_diagnosis |-> diag.val,
                         advisory |-> adv.val]]

\* A load that hands back whatever it finds under the identifier.
_load_json_trusting(chat_id, file) ==
  IF file.shape = "object" /\ chat_id \in DOMAIN file.fields
  THEN [raised |-> model_validate(file.fields[chat_id]).raised,
        val |-> model_validate(file.fields[chat_id]).val, file |-> file]
  ELSE [raised |-> FALSE, val |-> GraphState(chat_id), file |-> file]

\* file: "missing", Unparsable, "blank", or the JSON value the text parses to.
_read_all_json(file) ==
  IF file.shape \in {"missing", "unparsable"}
  THEN [data |-> JObj([x \in {} |-> JNull]), file |-> JObj([x \in {} |-> JNull])]
  ELSE IF file.shape = "object" THEN [data |-> file, file |-> file]
  ELSE [data |-> JObj([x \in {} |-> JNull]), file |-> file]

_load_json(chat_id, file) ==
  LET all_data == _read_all_json(file)
      entry == Get(all_data.data, chat_id)
  IN IF ~Truthy(entry)
     THEN [raised |-> FALSE, val |-> GraphState(chat_id), file |-> all_data.file]
     ELSE IF model_validate(entry).raised
     THEN [raised |-> FALSE, val |-> GraphState(chat_id), file |-> all_data.file]
     ELSE [raised |-> FALSE, val |-> model_validate(entry).val, file |-> all_data.file]

\* db: whether the server answers, and the sessions table (chat_id -> state_json).
_load_mysql(chat_id, db) ==
  IF ~db.up THEN [raised |-> TRUE, val |-> GraphState(chat_id), file |-> db.rows]
  ELSE IF chat_id \notin DOMAIN db.rows.fields
  THEN [raised |-> FALSE, val |-> GraphState(chat_id), file |-> db.rows]
  ELSE LET state_json == db.rows.fields[chat_id]
       IN IF state_json.shape = "unparsable" \/ model_validate(state_json).raised
          THEN [raised |-> FALSE, val |-> GraphState(chat_id), file |-> db.rows]
          ELSE [raised |-> FALSE, val |-> model_validate(state_json).val, file |-> db.rows]

StateStore_load(backend, chat_id, up, content) ==
  IF backend = "mysql" THEN _load_mysql(chat_id, [up |-> up, rows |-> content])
  ELSE _load_json(chat_id, content)

LoadIds == {"c1", "c2"}

StoredStates ==
  {GraphState("c1"), GraphState("c2"),
   [GraphState("c1") EXCEPT !.turn_count = 3, !.context.crop = "rice"],
   [GraphState("c2") EXCEPT !.turn_count = 1, !.last_node = "advice",
                            !.advisory = Adv("advice", 1)]}

StoredEntries ==
  {JNull, JObj([x \in {} |-> JNull]), JStr(""), JStr("oops"), JList(<<>>),
   JList(<<JNum(7)>>), JNum(0), JNum(7), JBool(FALSE),
   JObj([chat_id |-> JNum(7)]), JObj([turn_count |-> JStr("many")]),
   JObj([context |-> JStr("oops")]), JObj([chat_id |-> JNull]),
   JObj([chat_id |-> JStr("c1"), turn_count |-> JNum(3)]), JObj([extra |-> JNum(7)])}
  \cup {JDump(st) : st \in StoredStates}

StoredTables(entries) ==
  {JObj([x \in {} |-> JNull])}
  \cup {JObj([id \in {i} |-> e]) : i \in LoadIds, e \in entries}
  \cup {JObj([id \in LoadIds |-> IF id = "c1" THEN e ELSE JDump(GraphState("c2"))]) :
          e \in entries}

StoredFiles ==
  {[shape |-> "missing"], Unparsable, [shape |-> "blank"], JList(<<>>), JStr("{}"), JNull}
  \cup StoredTables(StoredEntries)

InitLoad ==
  /\ store = [kind |-> "absent", val |-> GraphState(ChatId)]
  /\ InitTasks(0, FALSE)
  /\ fin \in {[op |-> "load", backend |-> "json", up |-> TRUE, chat_id |-> "c1",
                content |-> f] : f \in StoredFiles}
             \cup {[op |-> "load", backend |-> "mysql", up |-> u, chat_id |-> "c1",
                     content |-> r] :
                     u \in BOOLEAN, r \in StoredTables(StoredEntries \cup {Unparsable})}
  /\ fout = NoFun

ApplyLoad ==
  /\ fin.op = "load"
  /\ fout = NoFun
  /\ LET r == StateStore_load(fin.backend, fin.chat_id, fin.up, fin.content)
     IN fout' = [op |-> "load", raised |-> r.raised, val |-> r.val, content |-> r.file]
  /\ UNCHANGED <<store, now, pc, arg, s, hist, out, budget, fin>>

SpecLoad == InitLoad /\ [][ApplyLoad]_vars

\* --------------------------------------- the structured-output call on its own
\* What the provider would answer to each request, were it made; max_tries as
\* a caller may pass it (every caller in the graph passes LlmMaxTries).
LlmResponses == {BadResp, JsonResp(TRUE, IntakeExtraction), JsonResp(FALSE, UNoCrop),
                 JsonResp(TRUE, UProfile)}
LlmTries == 1..(LlmMaxTries + 1)

InitLlm ==
  /\ store = [kind |-> "absent", val |-> GraphState(ChatId)]
  /\ InitTasks(0, FALSE)
  /\ fin \in {[op |-> "llm", resps |-> r, max_tries |-> m] :
                r \in [1..(LlmMaxTries + 2) -> LlmResponses], m \in LlmTries}
  /\ fout = NoFun

ApplyLlm ==
  /\ fin.op = "llm"
  /\ fout = NoFun
  /\ LET r == _llm_json(fin.resps, fin.max_tries)
     IN fout' = [op |-> "llm", ok |-> r.ok, data |-> r.data, tries |-> r.tries]
  /\ UNCHANGED <<store, now, pc, arg, s, hist, out, budget, fin>>

SpecLlm == InitLlm /\ [][ApplyLlm]_vars

\* -------------------------------------------- the session store, two sessions
\* A save that writes a file holding this session's entry alone.
_save_json_alone(state, file, farmers) ==
  [raised |-> FALSE,
   file |-> JObj([id \in {state.chat_id} |-> model_dump(state)]),
   farmers |-> farmers]

_save_json(state, file, farmers) ==
  LET all_data == _read_all_json(file)
  IN [raised |-> FALSE,
      file |-> With(all_data.data, state.chat_id, model_dump(state)),
      farmers |-> farmers]

\* The profile copy _save_mysql upserts into the farmers table.
farmer_row(state) ==
  LET c == state.context
  IN JObj([chat_id |-> JStr(state.chat_id),
           farmer_name |-> IF TruthyStr(c.farmer_name) THEN JStr(c.farmer_name) ELSE JNull,
           crop |-> IF TruthyStr(c.crop) THEN JStr(c.crop) ELSE JNull,
           land_size |-> OptNum(c.land_size),
           land_unit |-> IF TruthyStr(c.land_unit) THEN JStr(c.land_unit) ELSE JNull,
           location_text |-> IF TruthyStr(c.location_text) THEN JStr(c.location_text)
                             ELSE JNull,
           lat |-> OptNum(c.lat),
           lon |-> OptNum(c.lon)])

\* Both upserts are one transaction: a server that does not answer changes
\* nothing and the save raises.
_save_mysql(state, db) ==
  IF ~db.up THEN [raised |-> TRUE, file |-> db.rows, farmers |-> db.farmers]
  ELSE [raised |-> FALSE,
        file |-> With(db.rows, state.chat_id, model_dump(state)),
        farmers |-> With(db.farmers, state.chat_id, farmer_row(state))]

StateStore_save(backend, state, up, content, farmers) ==
  IF backend = "mysql"
  THEN _save_mysql(state, [up |-> up, rows |-> content, farmers |-> farmers])
  ELSE _save_json(state, content, farmers)

\* Two invocations in flight at once, each serving its own chat.
SessionOf(t) == IF t = "handler" THEN "c1" ELSE "c2"

MaxStoreOps == 3

EmptyTable == JObj([x \in {} |-> JNull])

\* What the server may do at one call: the file backend has no server.
Reachability == IF store.backend = "mysql" THEN BOOLEAN ELSE {TRUE}

\* What run_turn may hand back for `st`: the same chat, one turn more, and
\* whatever the turn's steps wrote.
TurnResults(st) ==
  LET n == st.turn_count + 1
      base == [st EXCEPT !.turn_count = n,
                         !.messages = Append(@, Msg("user", FreePlain, n))]
  IN {[base EXCEPT !.last_node = "ask",
                   !.messages = Append(@, Msg("assistant", Reply("Name?"), n))],
      [base EXCEPT !.last_node = "advice", !.context = CFull,
                   !.observation = [symptoms |-> <<"yellow leaves">>, pests_seen |-> <<>>,
                                    urgency |-> "high"],
                   !.weather = Snap(n, "weather"), !.advisory = Adv("advice", n),
                   !.messages = Append(@, Msg("assistant", Reply("headline"), n))],
      [base EXCEPT !.last_node = "advice",
                   !.context = [CFull EXCEPT !.lat = 0, !.lon = 73, !.land_size = 0],
                   !.web = Snap(BadTs, "q"), !.last_image = "photo",
                   !.image_diagnosis = "diagnosis", !.advisory = NoAdv]}

InitStore ==
  /\ \E b \in {"json", "mysql"} :
       \E f \in {EmptyTable,
                  JObj([id \in {"c2"} |-> model_dump(GraphState("c2"))]),
                  JObj([id \in {"c1"} |-> IF b = "mysql" THEN Unparsable ELSE JStr("oops")])}
                 \cup (IF b = "json" THEN {Unparsable} ELSE {}) :
         store = [backend |-> b, content |-> f, farmers |-> EmptyTable]
  /\ InitTasks(MaxStoreOps, FALSE)
  /\ fin = NoFun
  /\ fout = NoFun

\* The handler's first line: state = store.load(chat_id).
StoreLoad(t) ==
  /\ pc[t] = "idle"
  /\ budget.turns > 0
  /\ budget' = [budget EXCEPT !.turns = @ - 1]
  /\ \E up \in Reachability :
       LET r == StateStore_load(store.backend, SessionOf(t), up, store.content)
       IN /\ store' = [store EXCEPT !.content = r.file]
          /\ IF r.raised
             THEN UNCHANGED <<pc, arg, s>>
             ELSE /\ pc' = [pc EXCEPT ![t] = "loaded"]
                  /\ arg' = [arg EXCEPT ![t] = r.val]
                  /\ s' = [s EXCEPT ![t] = r.val]
  /\ UNCHANGED <<now, hist, out, fin, fout>>

\* new_state = await graph.run_turn(state, ...): other invocations run meanwhile.
StoreTurn(t) ==
  /\ pc[t] = "loaded"
  /\ \E new_state \in TurnResults(s[t]) : s' = [s EXCEPT ![t] = new_state]
  /\ pc' = [pc EXCEPT ![t] = "save"]
  /\ UNCHANGED <<store, now, arg, hist, out, budget, fin, fout>>

\* run_turn raised: the handler's except branch replies and saves nothing.
StoreTurnFails(t) ==
  /\ pc[t] = "loaded"
  /\ pc' = [pc EXCEPT ![t] = "idle"]
  /\ UNCHANGED <<store, now, arg, s, hist, out, budget, fin, fout>>

\* What a save does to the store and to the record of the last saved state.
Saving(t, state) ==
  \E up \in Reachability :
    LET r == StateStore_save(store.backend, state, up, store.content, store.farmers)
    IN /\ store' = [store EXCEPT !.content = r.file, !.farmers = r.farmers]
       /\ hist' = IF r.raised THEN hist
                  ELSE [hist EXCEPT ![t].last = "saved", ![t].pre = state]

\* store.save(new_state).
StoreSave(t) ==
  /\ pc[t] = "save"
  /\ Saving(t, s[t])
  /\ pc' = [pc EXCEPT ![t] = "idle"]
  /\ UNCHANGED <<now, arg, s, out, budget, fin, fout>>

\* reset_cmd: store.save(GraphState(chat_id=chat_id)), with no load before it.
StoreReset(t) ==
  /\ pc[t] = "idle"
  /\ budget.turns > 0
  /\ budget' = [budget EXCEPT !.turns = @ - 1]
  /\ Saving(t, GraphState(SessionOf(t)))
  /\ UNCHANGED <<now, pc, arg, s, out, fin, fout>>

NextStore ==
  \E t \in Tasks :
    StoreLoad(t) \/ StoreTurn(t) \/ StoreTurnFails(t) \/ StoreSave(t) \/ StoreReset(t)

SpecStore == InitStore /\ [][NextStore]_vars

\* ------------------------------------------- the staleness tests on their own
StaleCategories == {"weather", "web", "schemes", "market"}
StaleFetchTimes == {0, 5}
StaleClocks == {3, 6, 7, 12, 13, 24, 25, 168, 169, 173, 174}
StaleSnapshots == {NoSnap, Snap(BadTs, "q")} \cup {Snap(at, "q") : at \in StaleFetchTimes}

InitStale ==
  /\ store = [kind |-> "absent", val |-> GraphState(ChatId)]
  /\ InitTasks(0, FALSE)
  /\ fin \in {[op |-> "stale", cat |-> c, snap |-> sn, t |-> clock] :
                c \in StaleCategories, sn \in StaleSnapshots, clock \in StaleClocks}
  /\ fout = NoFun

ApplyStale ==
  /\ fin.op = "stale"
  /\ fout = NoFun
  /\ LET st == [GraphState(ChatId) EXCEPT ![fin.cat] = fin.snap]
     IN fout' = [op |-> "stale",
                 stale |-> CASE fin.cat = "weather" -> _is_weather_stale(st, fin.t)
                             [] fin.cat = "web" -> _is_web_stale(st, fin.t)
                             [] fin.cat = "schemes" -> _is_schemes_stale(st, fin.t)
                             [] fin.cat = "market" -> _is_market_stale(st, fin.t)]
  /\ UNCHANGED <<store, now, pc, arg, s, hist, out, budget, fin>>

SpecStale == InitStale /\ [][ApplyStale]_vars

\* ================================================================== claims
Count(seq, x) == Cardinality({i \in DOMAIN seq : seq[i] = x})
Range(seq) == {seq[i] : i \in DOMAIN seq}
Filter(seq, keep) == SelectSeq(seq, LAMBDA x : x \in keep)

\* C1: whatever the providers and the model do, a turn reaches a terminal step
\* after at most 8 routing decisions (so run_turn never gives up on the loop).
C1_TerminalWithinEightRoutes ==
  \A t \in Tasks : hist[t].routes <= 8 /\ out[t].status # "raised"

\* C2: within one turn each of vision, weather, web, schemes and market runs at
\* most once, whether its external call succeeds or fails.
C2_NonTerminalStepAtMostOnce ==
  \A t \in Tasks : \A n \in NonTerminal : Count(hist[t].trace, n) <= 1

\* C3: a turn that starts with the whole profile known, no image pending and no
\* enrichment snapshot, and in which every call succeeds, runs the applicable
\* ones of weather, web, schemes, market once each in that order and then
\* advice.  Stated for the messages that carry no profile data and that rules
\* 1 to 3 do not send straight to a terminal step.
ProfileKnown(st) ==
  /\ TruthyStr(st.context.farmer_name)
  /\ TruthyStr(st.context.crop)
  /\ st.context.stage # "unknown"
  /\ st.context.land_size # NoneNum
  /\ _has_location(st)

C3Start(st) ==
  /\ ProfileKnown(st)
  /\ ~TruthyStr(st.last_image)
  /\ ~st.weather.some /\ ~st.web.some /\ ~st.schemes.some /\ ~st.market.some

C3Applicable(st, text) ==
  (IF TruthyNum(st.context.lat) /\ TruthyNum(st.context.lon) THEN {"weather"} ELSE {})
    \cup (IF st.observation.symptoms # <<>> \/ text = ACTION_DIGEST THEN {"web"} ELSE {})
    \cup (IF text \in {ACTION_SCHEMES, ACTION_DIGEST} THEN {"schemes"} ELSE {})
    \cup (IF text \in {ACTION_MARKET, ACTION_DIGEST} THEN {"market"} ELSE {})

C3_EnrichmentOnceInOrderThenAdvice ==
  \A t \in Tasks :
    (/\ pc[t] = "reply"
     /\ C3Start(hist[t].pre)
     /\ hist[t].all_ok
     /\ hist[t].text \in {ACTION_SCHEMES, ACTION_MARKET, ACTION_DIGEST, ACTION_SET_LANG})
    => /\ out[t].status = "returned"
       /\ hist[t].trace =
            Filter(<<"weather", "web", "schemes", "market">>,
                   C3Applicable(hist[t].pre, hist[t].text)) \o <<"advice">>

\* The first rule of a list whose condition holds.
FirstMatch(rules) ==
  rules[CHOOSE i \in DOMAIN rules :
          rules[i].when /\ \A j \in 1..(i - 1) : ~rules[j].when].step

Rule(when, step) == [when |-> when, step |-> step]

\* The freshness rules 7 to 10 and the default rule 11.
FreshnessRules(st, t) ==
  LET u == _last_user_text(st) IN
  <<Rule(TruthyNum(st.context.lat) /\ TruthyNum(st.context.lon)
           /\ _is_weather_stale(st, t), "weather"),
    Rule((st.observation.symptoms # <<>> \/ u = ACTION_DIGEST) /\ _is_web_stale(st, t),
         "web"),
    Rule(u \in {ACTION_SCHEMES, ACTION_DIGEST} /\ _is_schemes_stale(st, t), "schemes"),
    Rule(u \in {ACTION_MARKET, ACTION_DIGEST} /\ _is_market_stale(st, t), "market"),
    Rule(TRUE, "advice")>>

CropUnsetWithLocation(st) ==
  /\ ~TruthyStr(st.context.crop)
  /\ _has_location(st)
  /\ _last_user_text(st) # ACTION_DIGEST

RecoOnceOrAsked(st) ==
  st.last_node # "crop_reco" \/ _user_wants_crop_reco(_last_user_text(st))

ImagePending(st) == TruthyStr(st.last_image) /\ ~TruthyStr(st.image_diagnosis)

ProfileMissing(st) == ~ProfileKnown(st) /\ _last_user_text(st) # ACTION_DIGEST

\* Rules 1 to 11 as the specification lists them.
ListedRules(st, t) ==
  LET u == _last_user_text(st) IN
  <<Rule(u = ACTION_BUY, "buy"),
    Rule(u = ACTION_CROP_RECO \/ (CropUnsetWithLocation(st) /\ RecoOnceOrAsked(st)),
         "crop_reco"),
    Rule(_is_stage_update_message(u), "advice"),
    Rule(CropUnsetWithLocation(st), "ask"),
    Rule(ImagePending(st), "vision"),
    Rule(ProfileMissing(st), "ask")>> \o FreshnessRules(st, t)

\* The same list with the crop-recommendation marker honoured only when a
\* location is known, and the stage statement ranked before the automatic
\* crop recommendation.
AmendedRules(st, t) ==
  LET u == _last_user_text(st) IN
  <<Rule(u = ACTION_BUY, "buy"),
    Rule(u = ACTION_CROP_RECO /\ _has_location(st), "crop_reco"),
    Rule(_is_stage_update_message(u), "advice"),
    Rule(CropUnsetWithLocation(st) /\ RecoOnceOrAsked(st), "crop_reco"),
    Rule(CropUnsetWithLocation(st), "ask"),
    Rule(ImagePending(st), "vision"),
    Rule(ProfileMissing(st), "ask")>> \o FreshnessRules(st, t)

\* C4 (as stated): _route returns the step of the first matching rule of the
\* specification's rules 1 to 11, and leaves the state as it was.
C4_RouteFollowsListedRules ==
  fout.op = "route" =>
    /\ fout.step = FirstMatch(ListedRules(fin.st, fin.t))
    /\ fout.st = fin.st

\* C4 (amended): _route returns the step of the first matching rule of the list
\* in which the crop-recommendation marker needs a known location and the stage
\* statement outranks the automatic crop recommendation; the state is untouched.
C4_RouteFollowsAmendedRules ==
  fout.op = "route" =>
    /\ fout.step = FirstMatch(AmendedRules(fin.st, fin.t))
    /\ fout.st = fin.st

\* The marker arrives with no location known and the farmer is asked instead.
C4_Witness ==
  /\ fout.op = "route"
  /\ _last_user_text(fin.st) = ACTION_CROP_RECO
  /\ ~_has_location(fin.st)
  /\ fout.step = "ask"

\* C5: at most one turn per session is in flight at any time, so a task that
\* is about to save still finds in the store the state it loaded.
C5_OneTurnInFlightNoLostUpdate ==
  /\ Cardinality({t \in Tasks : pc[t] # "idle"}) <= 1
  /\ \A t \in Tasks : pc[t] = "end" => load(ChatId) = hist[t].pre

\* C6: a field whose update is null, empty or blank keeps its value through
\* _merge_context, and empty update lists drop no symptom and no pest.
StrFields ==
  {"farmer_name", "land_unit", "crop", "stage", "location_text", "sowing_date",
   "irrigation", "soil_type", "notes"}
Blank(x) == x = NoneStr \/ Strip(x) = ""

C6_AbsentUpdateKeepsField ==
  fout.op = "merge" =>
    /\ \A f \in StrFields : Blank(fin.U[f]) => fout.ctx[f] = fin.C[f]
    /\ fin.U.land_size = NoneNum => fout.ctx.land_size = fin.C.land_size
    /\ fin.U.symptoms = <<>> => Range(fin.O.symptoms) \subseteq Range(fout.obs.symptoms)
    /\ fin.U.pests_seen = <<>> => Range(fin.O.pests_seen) \subseteq Range(fout.obs.pests_seen)

C6_Witness ==
  /\ fout.op = "merge"
  /\ fin.U.farmer_name = "" /\ fin.C.farmer_name = "Ramesh"
  /\ fout.ctx.farmer_name = "Ramesh"
  /\ fin.U.symptoms = <<>> /\ fin.O.symptoms # <<>>
  /\ fout.obs.symptoms = fin.O.symptoms

\* C7: a profile field known when a turn starts is still known in the state the
\* turn returns.
KnownFields(c) ==
  {f \in {"farmer_name", "crop", "location_text"} : c[f] # NoneStr}
    \cup {f \in {"land_size", "lat", "lon"} : c[f] # NoneNum}
    \cup (IF c.stage # "unknown" THEN {"stage"} ELSE {})

C7_KnownFieldsStayKnown ==
  \A t \in Tasks :
    out[t].status = "returned" =>
      KnownFields(hist[t].pre.context) \subseteq KnownFields(out[t].val.context)

\* C8: the log never holds more than 16 entries: not in the working state after
\* run_turn's append or after an executor's append, not in a returned state,
\* not in the store.
C8_LogAtMostSixteen ==
  /\ \A t \in Tasks : Len(s[t].messages) <= 16 /\ Len(out[t].val.messages) <= 16
  /\ Len(store.val.messages) <= 16

\* C9: while run_turn runs and after it has returned or raised, the object the
\* caller passed in equals what it was before the call; the turn's changes are
\* in the returned state.
C9_IncomingStateNotMutated ==
  \A t \in Tasks :
    /\ pc[t] # "idle" => arg[t] = hist[t].pre
    /\ out[t].status = "returned" =>
         out[t].val.turn_count = hist[t].pre.turn_count + 1

C9_Witness ==
  \E t \in Tasks :
    /\ out[t].status = "returned"
    /\ out[t].val.messages # hist[t].pre.messages
    /\ arg[t] = hist[t].pre

\* C10: whenever run_turn returns, the last log entry is an assistant message
\* appended in this turn, after this turn's user message.
C10_ReturnedLogEndsWithReply ==
  \A t \in Tasks :
    out[t].status = "returned" =>
      LET m == out[t].val.messages
          n == Len(m)
      IN /\ n >= 2
         /\ m[n].role = "assistant"
         /\ m[n].at = out[t].val.turn_count
         /\ \E i \in 1..(n - 1) :
              /\ m[i].role = "user"
              /\ m[i].content = hist[t].text
              /\ m[i].at = out[t].val.turn_count

\* A turn in which an external call failed and the model gave no advisory
\* still returned, with the fallback text as its reply.
C10_Witness ==
  \E t \in Tasks :
    /\ out[t].status = "returned"
    /\ ~hist[t].all_ok
    /\ ~out[t].val.advisory.some
    /\ out[t].val.messages[Len(out[t].val.messages)].role = "assistant"

C12_FailedFetchKeepsSnapshot ==
  [][\A t \in Tasks :
       (/\ pc[t] \in {"weather", "web", "schemes", "market"}
        /\ hist'[t].steps = hist[t].steps + 1
        /\ ~hist'[t].last_ok)
       => (s'[t][pc[t]] = s[t][pc[t]] /\ pc'[t] = "plan")]_vars

\* A weather fetch has just failed and the snapshot of an earlier turn is kept.
C12_Witness ==
  \E t \in Tasks :
    /\ pc[t] = "plan"
    /\ hist[t].last = "weather"
    /\ ~hist[t].last_ok
    /\ s[t].weather.some
    /\ s[t].weather.fetched_at < now
    /\ s[t].weather = hist[t].pre.weather

\* ----------------------------------------------------------------------- C13
\* C13: when the generation call of crop_reco or advice fails after its
\* retries, the step appends exactly one fixed fallback assistant message to
\* the log the turn started with, the advisory is null in the working state and
\* in the state run_turn returns, and the turn ends at that step without raising.
Fallback(name) ==
  IF name = "crop_reco" THEN "Share location and ask: recommend crops."
  ELSE "Send crop + stage + location"

C13_GenerationFailureFallsBack ==
  \A t \in Tasks :
    (hist[t].gen = "failed" /\ hist[t].last \in {"crop_reco", "advice"}) =>
      LET base == RunTurnEnter(hist[t].pre, hist[t].text).work
      IN /\ pc[t] \in {"end", "reply"}
         /\ out[t].status # "raised"
         /\ s[t].messages =
              Append(base.messages,
                     Msg("assistant", Reply(Fallback(hist[t].last)), s[t].turn_count))
         /\ s[t].advisory = NoAdv
         /\ s[t].last_node = hist[t].last
         /\ out[t].status = "returned" =>
              /\ out[t].val.advisory = NoAdv
              /\ out[t].val.messages = s[t].messages
              /\ out[t].val.last_node = hist[t].last

\* A turn returned after a failed crop recommendation, in a session that held
\* an advisory before the turn.
C13_Witness ==
  \E t \in Tasks :
    /\ out[t].status = "returned"
    /\ hist[t].gen = "failed"
    /\ hist[t].last = "crop_reco"
    /\ hist[t].pre.advisory.some
    /\ out[t].val.advisory = NoAdv

\* ----------------------------------------------------------------------- C14
\* C14: for an old urgency o in {low, medium, high} and any update urgency u,
\* _merge_observation yields the larger of o and u under low < medium < high
\* when u (trimmed, ignoring case) is one of the three levels, and o otherwise;
\* over a sequence of merges the urgency never falls below where it started.
Rank(level) == CASE level = "low" -> 1 [] level = "medium" -> 2 [] level = "high" -> 3
Levels == {"low", "medium", "high"}

C14_UrgencyIsMaximum ==
  fout.op = "merge" =>
    LET o == fin.O.urgency
        u == IF fin.U.urgency = NoneStr THEN "" ELSE Lower(Strip(fin.U.urgency))
        r == fout.obs.urgency
    IN /\ o \in Levels
       /\ r \in Levels
       /\ u \in Levels => r = (IF Rank(u) > Rank(o) THEN u ELSE o)
       /\ u \notin Levels => r = o
       /\ Rank(r) >= Rank(o)
       /\ Rank(r) >= Rank(fin.start.urgency)

\* A lower recognised update met a higher old urgency in the second merge of a
\* sequence, and the urgency stayed.
C14_Witness ==
  /\ fout.op = "merge"
  /\ fin.n = 2
  /\ fin.O.urgency = "high"
  /\ fin.U.urgency = "low"
  /\ fout.obs.urgency = "high"
  /\ fin.start.urgency = "low"

\* ----------------------------------------------------------------------- C15
\* C15: in every state a session reaches from a fresh start through turns and
\* stage-button presses, context.stage is one of the ten stage values; and
\* whenever intake is about to run, whatever the extraction call answers, a
\* stated or extracted stage outside the ten values leaves the stage as it was
\* while a stated or extracted member value becomes the stage.
StageEnumeration ==
  {"unknown", "pre_sowing", "sowing", "germination", "vegetative", "flowering",
   "fruiting", "maturity", "harvest", "post_harvest"}

StageAfterIntake(st, resps) == ApplyUpdate(st, intake_node(st, resps)).context.stage

C15_StageStaysInEnumeration ==
  /\ store.val.context.stage \in StageEnumeration
  /\ \A t \in Tasks :
       /\ s[t].context.stage \in StageEnumeration
       /\ arg[t].context.stage \in StageEnumeration
       /\ out[t].val.context.stage \in StageEnumeration
       /\ pc[t] = "intake" =>
            \A resps \in ExtractionReplies :
              LET prior == s[t].context.stage
                  x == _last_user_text(s[t])
                  stated == IF x.kind = "stage" THEN Lower(Strip(x.body)) ELSE ""
                  r == _llm_json(resps, LlmMaxTries)
                  extracted == IF r.ok /\ r.data.valid /\ r.data.upd.stage # NoneStr
                               THEN Lower(Strip(r.data.upd.stage)) ELSE ""
              IN StageAfterIntake(s[t], resps) =
                   (IF stated \in StageEnumeration THEN stated
                    ELSE IF x.kind = "action" THEN prior
                    ELSE IF extracted \in StageEnumeration THEN extracted
                    ELSE prior)

\* A session whose stage is flowering is at intake with the message
\* "My stage is Bogus."; the extraction answer will carry an unlisted stage too.
C15_Witness ==
  \E t \in Tasks :
    /\ pc[t] = "intake"
    /\ s[t].context.stage = "flowering"
    /\ _last_user_text(s[t]) = StageBogus
    /\ StageAfterIntake(s[t], <<JsonResp(TRUE, UNoCrop), BadResp>>) = "flowering"

\* ----------------------------------------------------------------------- C16
\* C16: over any sequence of merges that starts from empty lists, the symptom
\* list and the pest list hold no two entries that are equal ignoring case; a
\* merge keeps every existing entry at its position, removes none, and appends
\* the update's new entries (trimmed, non-empty, not yet listed ignoring case)
\* in the order of their first appearance in the update.
UniqueIgnoringCase(list) ==
  \A i, j \in 1..Len(list) : Lower(list[i]) = Lower(list[j]) => i = j

\* The entries of `new` a merge into `old` has to append, in order.
NewEntries(old, new) ==
  LET cand == [i \in 1..Len(new) |-> IF new[i] = NoneStr THEN "" ELSE Strip(new[i])]
      first(i) == /\ cand[i] # ""
                  /\ \A k \in 1..Len(old) : Lower(old[k]) # Lower(cand[i])
                  /\ \A k \in 1..(i - 1) : Lower(cand[k]) # Lower(cand[i])
      idx == SelectSeq([i \in 1..Len(new) |-> i], LAMBDA i : first(i))
  IN [k \in 1..Len(idx) |-> cand[idx[k]]]

ListMergedInOrder(old, new, merged) ==
  /\ UniqueIgnoringCase(merged)
  /\ merged = old \o NewEntries(old, new)

C16_ListsUniqueAndOrdered ==
  (fout.op = "merge" /\ fin.start.symptoms = <<>> /\ fin.start.pests_seen = <<>>) =>
    /\ ListMergedInOrder(fin.O.symptoms, fin.U.symptoms, fout.obs.symptoms)
    /\ ListMergedInOrder(fin.O.pests_seen, fin.U.pests_seen, fout.obs.pests_seen)

\* The second merge of a sequence from empty lists: the lists hold
\* "YELLOW LEAVES" and "aphids", "Borer"; the update names "Spots" twice in
\* different case, then " Wilting ", and repeats the pest as "borer".
C16_Witness ==
  /\ fout.op = "merge"
  /\ fin.n = 2
  /\ fin.start.symptoms = <<>>
  /\ fin.start.pests_seen = <<>>
  /\ fin.O.symptoms = <<"YELLOW LEAVES">>
  /\ fin.O.pests_seen = <<"aphids", "Borer">>
  /\ fin.U = UDupes
  /\ fout.obs.symptoms = <<"YELLOW LEAVES", "Spots", "Wilting">>
  /\ fout.obs.pests_seen = <<"aphids", "Borer">>

\* ----------------------------------------------------------------------- C17
\* C17: for weather (6 hours), web (24 hours), schemes (7 days) and market
\* (12 hours), and for every snapshot and current time, the staleness test is
\* true exactly when the snapshot is absent, its fetch timestamp does not
\* parse, or the current time minus the fetch time is strictly greater than
\* the category's threshold; at an age equal to the threshold it is false.
ThresholdHours(cat) ==
  CASE cat = "weather" -> 6
    [] cat = "web" -> 24
    [] cat = "schemes" -> 7 * 24
    [] cat = "market" -> 12

C17_StaleExactlyPastThreshold ==
  fout.op = "stale" =>
    LET absent == ~fin.snap.some
        unparsed == fin.snap.some /\ fin.snap.fetched_at = BadTs
        age == fin.t - fin.snap.fetched_at
    IN /\ fout.stale = (absent \/ unparsed \/ age > ThresholdHours(fin.cat))
       /\ (~absent /\ ~unparsed /\ age = ThresholdHours(fin.cat)) => ~fout.stale

\* A schemes snapshot fetched exactly seven days ago is not stale.
C17_Witness ==
  /\ fout.op = "stale"
  /\ fin.cat = "schemes"
  /\ fin.snap.some
  /\ fin.snap.fetched_at = 5
  /\ fin.t = 173
  /\ ~fout.stale

\* ----------------------------------------------------------------------- C18
\* C18: whenever the most recent user message is the buy marker, _route
\* returns buy, whatever else the state holds (missing profile fields, a
\* pending image, stale snapshots, any last step).
C18_BuyMarkerAlwaysBuys ==
  (fout.op = "route" /\ _last_user_text(fin.st) = ACTION_BUY) => fout.step = "buy"

\* The buy marker in a session with no name, no location, no crop, a pending
\* image and no snapshot at all.
C18_Witness ==
  /\ fout.op = "route"
  /\ _last_user_text(fin.st) = ACTION_BUY
  /\ fin.st.context.farmer_name = NoneStr
  /\ fin.st.context.crop = NoneStr
  /\ fin.st.context.lat = NoneNum
  /\ fin.st.context.location_text = NoneStr
  /\ fin.st.last_image = "photo"
  /\ ~fin.st.weather.some
  /\ fout.step = "buy"

\* ----------------------------------------------------------------------- C19
LocationKnown(st) ==
  \/ st.context.lat \notin {NoneNum, 0} /\ st.context.lon \notin {NoneNum, 0}
  \/ st.context.location_text \notin {NoneStr, "", " "}

\* C19 (as stated): whenever the most recent user message is the
\* crop-recommendation marker, _route returns crop_reco, whether or not a
\* location is known and whether or not a crop is set.
C19_MarkerAlwaysCropReco ==
  (fout.op = "route" /\ _last_user_text(fin.st) = ACTION_CROP_RECO) =>
    fout.step = "crop_reco"

\* C19 (amended): with the crop-recommendation marker as the most recent user
\* message, _route returns crop_reco when a location is known, whether or not a
\* crop is set; when no location is known it returns vision if an image awaits
\* diagnosis and ask otherwise.
C19_MarkerNeedsLocation ==
  (fout.op = "route" /\ _last_user_text(fin.st) = ACTION_CROP_RECO) =>
    fout.step = (IF LocationKnown(fin.st) THEN "crop_reco"
                 ELSE IF fin.st.last_image # NoneStr /\ fin.st.image_diagnosis = NoneStr
                      THEN "vision"
                 ELSE "ask")

\* The marker arrives with no location known while a photo awaits diagnosis,
\* and the turn goes to vision.
C19_Witness ==
  /\ fout.op = "route"
  /\ _last_user_text(fin.st) = ACTION_CROP_RECO
  /\ fin.st.context.lat = NoneNum
  /\ fin.st.context.location_text = NoneStr
  /\ fin.st.last_image = "photo"
  /\ fout.step = "vision"

\* ----------------------------------------------------------------------- C20
StageStatementWithoutCrop(st) ==
  /\ st.context.crop = NoneStr
  /\ LocationKnown(st)
  /\ st.last_node # "crop_reco"
  /\ _last_user_text(st).kind = "stage"
  /\ Lower(Strip(_last_user_text(st).body)) \in StageEnumeration

\* C20 (as stated): with the crop unset, a location known, a last step other
\* than crop_reco and a valid stage statement as the most recent user message,
\* _route returns crop_reco rather than advice.
C20_StageStatementYieldsCropReco ==
  (fout.op = "route" /\ StageStatementWithoutCrop(fin.st)) => fout.step = "crop_reco"

\* C20 (amended): in those states _route returns advice: the stage statement is
\* tested before the automatic crop recommendation.
C20_StageStatementYieldsAdvice ==
  (fout.op = "route" /\ StageStatementWithoutCrop(fin.st)) => fout.step = "advice"

\* "My stage is Flowering." in a session with coordinates and no crop.
C20_Witness ==
  /\ fout.op = "route"
  /\ StageStatementWithoutCrop(fin.st)
  /\ _last_user_text(fin.st) = StageFlowering
  /\ fin.st.context.lat = 19
  /\ fin.st.last_node = "plan"
  /\ fout.step = "advice"

\* ----------------------------------------------------------------------- C21
\* C21: crop recommendation is triggered automatically only once: when the
\* previous turn ended in crop_reco, the crop is still unset, a location is
\* known and the new message is neither an action marker, a stage statement
\* nor a crop-recommendation request, the new turn's routing decision is ask
\* and the turn does not execute crop_reco.
C21_AutoRecoOnlyOnce ==
  \A t \in Tasks :
    (/\ hist[t].routes >= 1
     /\ hist[t].pre.last_node = "crop_reco"
     /\ hist[t].text.kind = "free"
     /\ hist[t].text.body # "reco"
     /\ s[t].context.crop = NoneStr
     /\ LocationKnown(s[t]))
    => /\ pc[t] # "crop_reco"
       /\ \A i \in 1..Len(hist[t].trace) : hist[t].trace[i] # "crop_reco"
       /\ pc[t] = "ask" \/ hist[t].trace = <<"ask">>

\* ----------------------------------------------------------------------- C22
\* C22: with an image that has no diagnosis yet and no location known, and a
\* message that is neither the buy marker, the crop-recommendation marker nor
\* a stage statement (rule 4 needs a location), _route returns vision and not
\* ask; with an image held and no location known, ask is returned only when a
\* diagnosis is present.
C22_VisionBeforeAsk ==
  fout.op = "route" =>
    LET st == fin.st
        u == _last_user_text(st)
        stated == u.kind = "stage" /\ Lower(Strip(u.body)) \in StageEnumeration
    IN /\ (/\ st.last_image # NoneStr
           /\ st.image_diagnosis = NoneStr
           /\ ~LocationKnown(st)
           /\ u \notin {ACTION_BUY, ACTION_CROP_RECO}
           /\ ~stated) => fout.step = "vision"
       /\ (fout.step = "ask" /\ st.last_image # NoneStr /\ ~LocationKnown(st))
            => st.image_diagnosis # NoneStr

\* A photo awaits diagnosis in a session whose name, crop, stage and land size
\* are known but whose location is not: the turn goes to vision.
C22_Witness ==
  /\ fout.op = "route"
  /\ _last_user_text(fin.st) = FreePlain
  /\ fin.st.last_image = "photo"
  /\ fin.st.image_diagnosis = NoneStr
  /\ fin.st.context.farmer_name = "Ramesh"
  /\ fin.st.context.crop = "rice"
  /\ fin.st.context.lat = NoneNum
  /\ fin.st.context.location_text = NoneStr
  /\ fout.step = "vision"

\* ----------------------------------------------------------------------- C23
\* C23: when the most recent user message is the digest marker, _route never
\* returns ask, crop_reco or buy, whatever profile fields are missing: it
\* returns one of vision, weather, web, schemes, market, advice.
C23_DigestNeverAsks ==
  (fout.op = "route" /\ _last_user_text(fin.st) = ACTION_DIGEST) =>
    fout.step \in {"vision", "weather", "web", "schemes", "market", "advice"}

\* The digest marker in a session with no name, no crop and no location: the
\* turn goes on to the web refresh.
C23_Witness ==
  /\ fout.op = "route"
  /\ _last_user_text(fin.st) = ACTION_DIGEST
  /\ fin.st.context.farmer_name = NoneStr
  /\ fin.st.context.crop = NoneStr
  /\ fin.st.context.lat = NoneNum
  /\ fin.st.context.location_text = NoneStr
  /\ fout.step = "web"

\* ----------------------------------------------------------------------- C24
\* C24: in any turn the schemes step is about to run or has run only if the
\* turn's message is the schemes or digest marker, and it is entered only with
\* a stale schemes snapshot; likewise the market step with the market or digest
\* marker and the market snapshot; for any other message the schemes and the
\* market snapshot stay what they were when the turn began, up to and
\* including the state the turn returns.
SnapshotStale(snap, hours) ==
  ~snap.some \/ snap.fetched_at = BadTs \/ now - snap.fetched_at > hours

RanOrRuns(t, name) ==
  pc[t] = name \/ \E i \in 1..Len(hist[t].trace) : hist[t].trace[i] = name

C24_SchemesMarketOnlyOnRequest ==
  \A t \in Tasks :
    /\ RanOrRuns(t, "schemes") => hist[t].text \in {ACTION_SCHEMES, ACTION_DIGEST}
    /\ RanOrRuns(t, "market") => hist[t].text \in {ACTION_MARKET, ACTION_DIGEST}
    /\ pc[t] = "schemes" => SnapshotStale(s[t].schemes, 7 * 24)
    /\ pc[t] = "market" => SnapshotStale(s[t].market, 12)
    /\ (pc[t] # "idle" /\ hist[t].text \notin {ACTION_SCHEMES, ACTION_DIGEST}) =>
         /\ s[t].schemes = hist[t].pre.schemes
         /\ out[t].status = "returned" => out[t].val.schemes = hist[t].pre.schemes
    /\ (pc[t] # "idle" /\ hist[t].text \notin {ACTION_MARKET, ACTION_DIGEST}) =>
         /\ s[t].market = hist[t].pre.market
         /\ out[t].status = "returned" => out[t].val.market = hist[t].pre.market

\* A turn on the market marker has fetched the market snapshot and returned,
\* with the schemes snapshot left absent.
C24_Witness ==
  \E t \in Tasks :
    /\ out[t].status = "returned"
    /\ hist[t].text = ACTION_MARKET
    /\ RanOrRuns(t, "market")
    /\ out[t].val.market.some
    /\ ~out[t].val.schemes.some

\* ----------------------------------------------------------------------- C25
\* C25: from an empty session, a first free-text message from which the
\* extraction yields name, crop, stage germination, land size and a location
\* given as text only, with every provider and model call succeeding, makes
\* the turn execute weather and then advice, and the returned state has an
\* advisory and stage germination.
C25_FirstMessageWeatherThenAdvice ==
  \A t \in Tasks :
    (/\ out[t].status = "returned"
     /\ hist[t].pre = GraphState(ChatId)
     /\ hist[t].text = FreePlain
     /\ hist[t].all_ok
     /\ out[t].val.context.farmer_name = "Ramesh"
     /\ out[t].val.context.crop = "rice"
     /\ out[t].val.context.land_size = 2
     /\ out[t].val.context.location_text \in {"Pune", "Pune, MH, IN"})
    => /\ hist[t].trace = <<"weather", "advice">>
       /\ out[t].val.advisory.some
       /\ out[t].val.context.stage = "germination"

\* ----------------------------------------------------------------------- C26
\* C26: in the state a completed turn returns, the advisory is either null or
\* the record that turn's terminal step produced; an advisory of an earlier
\* turn never survives into the state a later turn returns.
C26_AdvisoryIsThisTurns ==
  \A t \in Tasks :
    out[t].status = "returned" =>
      LET a == out[t].val.advisory
      IN \/ a = NoAdv
         \/ /\ a.some
            /\ a.made_in = out[t].val.turn_count
            /\ a.by = out[t].val.last_node
            /\ a.by \in {"crop_reco", "buy", "advice"}
            /\ a.made_in = hist[t].pre.turn_count + 1

\* A turn that began with the advisory of an earlier turn and ended in ask
\* returns no advisory.
C26_Witness ==
  \E t \in Tasks :
    /\ out[t].status = "returned"
    /\ hist[t].pre.advisory.some
    /\ hist[t].pre.advisory.made_in < out[t].val.turn_count
    /\ out[t].val.last_node = "ask"
    /\ out[t].val.advisory = NoAdv

\* C27: an Advisory that safe_parse_advisory returns has at most 5 actions, 3
\* cautions and 2 safety notes, a rationale of at most 220 characters, a
\* confidence among low, medium and high (medium when the input gives none or
\* an unknown one), a headline that is not empty, and keeps the entries of an
\* input list in the input's order; an ImageDiagnosis that
\* _coerce_image_diagnosis returns has at most 3 causes, 3 actions and 2
\* cautions.
RECURSIVE Subsequence(_, _)
Subsequence(a, b) ==
  IF a = <<>> THEN TRUE
  ELSE IF b = <<>> THEN FALSE
  ELSE IF Head(a) = Head(b) THEN Subsequence(Tail(a), Tail(b))
  ELSE Subsequence(a, Tail(b))

InOrder(kept, v) ==
  v.shape = "list" => Subsequence(kept, [i \in 1..Len(v.items) |-> Strip(PyStr(v.items[i]))])

KnownConfidence(v) ==
  v.shape = "string" /\ Lower(Strip(v.s)) \in {"low", "medium", "high"}

C27_CoercedValuesAreBounded ==
  /\ (fout.op = "advisory" /\ ~fout.raised) =>
       /\ Len(fout.val.actions_now) <= 5
       /\ Len(fout.val.watch_out_for) <= 3
       /\ Len(fout.val.safety_notes) <= 2
       /\ Len(fout.val.rationale_brief) <= 220
       /\ fout.val.confidence \in {"low", "medium", "high"}
       /\ (~KnownConfidence(Get(fin.data, "confidence")) => fout.val.confidence = "medium")
       /\ fout.val.headline # ""
       /\ InOrder(fout.val.actions_now, Get(fin.data, "actions_now"))
       /\ InOrder(fout.val.watch_out_for, Get(fin.data, "watch_out_for"))
       /\ InOrder(fout.val.safety_notes, Get(fin.data, "safety_notes"))
  /\ fout.op = "diagnosis" =>
       /\ Len(fout.val.likely_causes) <= 3
       /\ Len(fout.val.actions_now) <= 3
       /\ Len(fout.val.watch_out_for) <= 2

C27_Witness ==
  /\ fout.op = "advisory"
  /\ ~fout.raised
  /\ Get(fin.data, "actions_now") = Strs(<<"a", "b", "c", "d", "e", "f", "g">>)
  /\ fout.val.actions_now = <<"a", "b", "c", "d", "e">>

\* C28: safe_parse_advisory returns an Advisory, and raises nothing, for a
\* value of any shape: object, list, string, number, null.
C28_CoercionNeverRaises == fout.op = "advisory" => ~fout.raised

\* C29: with crop and location known and six or more URLs from the shopping
\* provider, the buy step's advisory lists six links: two under seeds, two
\* under fertilizer, two under crop protection, in the provider's order.
C29_BuyListsSixLinks ==
  (fout.op = "buy" /\ Len(fin.data.urls) >= 6) =>
    fout.val.actions_now =
      <<"Seeds: " \o fin.data.urls[1], "Seeds: " \o fin.data.urls[2],
        "Fertilizer: " \o fin.data.urls[3], "Fertilizer: " \o fin.data.urls[4],
        "Crop protection: " \o fin.data.urls[5], "Crop protection: " \o fin.data.urls[6]>>

\* C30: with the store reachable, load(chat_id) raises nothing and returns a
\* fresh empty state carrying chat_id whenever the store holds no entry for
\* chat_id or what it holds there does not parse.
NoEntry(backend, chat_id, content) ==
  \/ backend = "json" /\ content.shape \in {"missing", "blank"}
  \/ content.shape = "object" /\ chat_id \notin DOMAIN content.fields

FailsToParse(backend, chat_id, content) ==
  \/ backend = "json" /\ content.shape \notin {"missing", "blank", "object"}
  \/ /\ content.shape = "object"
     /\ chat_id \in DOMAIN content.fields
     /\ \/ content.fields[chat_id].shape = "unparsable"
        \/ content.fields[chat_id].shape \notin {"object", "dump"}
        \/ /\ content.fields[chat_id].shape = "object"
           /\ \E k \in DOMAIN content.fields[chat_id].fields :
                \/ k = "chat_id" /\ content.fields[chat_id].fields[k].shape # "string"
                \/ k = "turn_count" /\ content.fields[chat_id].fields[k].shape # "number"
                \/ k = "context" /\ content.fields[chat_id].fields[k].shape # "object"

C30_LoadResetsMissingOrCorrupt ==
  (/\ fout.op = "load"
   /\ fin.up
   /\ \/ NoEntry(fin.backend, fin.chat_id, fin.content)
      \/ FailsToParse(fin.backend, fin.chat_id, fin.content)) =>
    ~fout.raised /\ fout.val = GraphState(fin.chat_id)

C30_Witness ==
  /\ fout.op = "load"
  /\ fin.backend = "json"
  /\ fin.content.shape = "object"
  /\ fin.chat_id \in DOMAIN fin.content.fields
  /\ fin.content.fields[fin.chat_id] = JObj([turn_count |-> JStr("many")])
  /\ "c2" \in DOMAIN fin.content.fields
  /\ ~fout.raised
  /\ fout.val = GraphState("c1")

\* C31: when the store's backend fails during load (the server does not
\* answer), load returns a fresh empty state for the session and raises
\* nothing, so the handler can run the turn.
C31_LoadFailureFallsBack ==
  (fout.op = "load" /\ ~fin.up) =>
    ~fout.raised /\ fout.val = GraphState(fin.chat_id)

\* C32: one structured-output call makes at most max_tries requests; it
\* returns the first response that parses to a JSON object, goes on to the next
\* request after a failed one, and fails only when max_tries requests in a row
\* have failed; with the max_tries every step passes that is at most 2
\* requests.
C32_AtMostMaxTriesRequests ==
  fout.op = "llm" =>
    /\ fout.tries \in 1..fin.max_tries
    /\ \A i \in 1..(fout.tries - 1) : ~fin.resps[i].json
    /\ fout.ok => fin.resps[fout.tries].json /\ fout.data = fin.resps[fout.tries]
    /\ ~fout.ok => fout.tries = fin.max_tries /\ ~fin.resps[fout.tries].json
    /\ fin.max_tries = LlmMaxTries => fout.tries <= 2

C32_Witness ==
  /\ fout.op = "llm"
  /\ fin.max_tries = LlmMaxTries
  /\ ~fin.resps[1].json
  /\ fin.resps[2].json
  /\ fout.ok
  /\ fout.tries = 2

\* C33: intake's shortcuts make no extraction call (whatever the provider
\* would have answered, the step's result is the same).  For a message that is
\* a valid stage statement intake sets context.stage to the stated value and
\* changes no other context field and no observation field; for a message with
\* the action-marker prefix it changes no context or observation field.
IntakeIgnoresProvider(t) ==
  \A resps \in ExtractionReplies : ApplyUpdate(s[t], intake_node(s[t], resps)) = s'[t]

C33_IntakeShortcutsFrame ==
  [][\A t \in Tasks :
       (pc[t] = "intake" /\ pc'[t] = "plan") =>
         /\ TruthyStr(_extract_stage_from_text(hist[t].text)) =>
              /\ s'[t].context =
                   [s[t].context EXCEPT !.stage = _extract_stage_from_text(hist[t].text)]
              /\ s'[t].observation = s[t].observation
              /\ IntakeIgnoresProvider(t)
         /\ _is_action_message(hist[t].text) =>
              /\ s'[t].context = s[t].context
              /\ s'[t].observation = s[t].observation
              /\ IntakeIgnoresProvider(t)]_vars

C33_Witness ==
  \E t \in Tasks :
    /\ hist[t].last = "intake"
    /\ hist[t].text = StageFlowering
    /\ hist[t].pre.context.stage # "flowering"
    /\ hist[t].pre.observation.symptoms # <<>>
    /\ s[t].context = [hist[t].pre.context EXCEPT !.stage = "flowering"]
    /\ s[t].observation = hist[t].pre.observation

\* C34: each of the steps weather, web, schemes, market and vision changes
\* only its own field (its category's snapshot, or image_diagnosis) and
\* last_node: context, observation, log, advisory and every other category's
\* snapshot are the same before and after the step, whether its call succeeded
\* or failed.
OwnField(node) == IF node = "vision" THEN "image_diagnosis" ELSE node

C34_EnrichmentStepFrame ==
  [][\A t \in Tasks :
       (pc[t] \in NonTerminal /\ pc'[t] = "plan") =>
         \A k \in DOMAIN s[t] \ {OwnField(pc[t]), "last_node"} : s'[t][k] = s[t][k]]_vars

C34_Witness ==
  \E t \in Tasks :
    /\ hist[t].last = "web"
    /\ ~hist[t].last_ok
    /\ hist[t].trace = <<"weather", "web">>
    /\ s[t].weather.some
    /\ ~s[t].web.some
    /\ s[t].context = hist[t].pre.context
    /\ s[t].observation.symptoms # <<>>

\* C35: sessions are isolated in the store: whatever one invocation does for
\* its session (load, turn, save, reset), and however the invocations
\* interleave, what a load of the other session returns stays the same.
Loaded(chat_id, st) == StateStore_load(st.backend, chat_id, TRUE, st.content).val

C35_SessionsIsolated ==
  [][\A t \in Tasks :
       (pc'[t] # pc[t] \/ hist'[t] # hist[t]) =>
         \A other \in Tasks \ {t} :
           Loaded(SessionOf(other), store') = Loaded(SessionOf(other), store)]_vars

C35_Witness ==
  /\ hist["handler"].last = "saved"
  /\ hist["job"].last = "saved"
  /\ hist["handler"].pre.turn_count = 1
  /\ hist["job"].pre.turn_count = 1
  /\ hist["handler"].pre.context # hist["job"].pre.context
  /\ Loaded("c1", store) = hist["handler"].pre
  /\ Loaded("c2", store) = hist["job"].pre

\* C36: a state that was saved is what load returns for its chat_id, field by
\* field, as long as no other save for that chat_id came in between.
C36_SaveThenLoadReturnsState ==
  \A t \in Tasks :
    hist[t].last = "saved" =>
      LET r == StateStore_load(store.backend, hist[t].pre.chat_id, TRUE, store.content)
      IN ~r.raised /\ r.val = hist[t].pre

C36_Witness ==
  \E t \in Tasks :
    /\ hist[t].last = "saved"
    /\ hist[t].pre.context.lat = 0
    /\ hist[t].pre.web = Snap(BadTs, "q")
    /\ Len(hist[t].pre.messages) = 1
    /\ Loaded(SessionOf(t), store) = hist[t].pre

\* C37: at every routing decision and in every step of a turn, the most
\* recent user message of the log is the message the turn was started with
\* (the entry appended in this turn), also when the log held 16 entries before
\* the turn began.
UserEntries(msgs) == {i \in 1..Len(msgs) : msgs[i].role = "user"}
LastUserEntry(msgs) == CHOOSE i \in UserEntries(msgs) : \A j \in UserEntries(msgs) : j <= i

C37_LastUserIsInbound ==
  \A t \in Tasks :
    pc[t] # "idle" =>
      /\ UserEntries(s[t].messages) # {}
      /\ s[t].messages[LastUserEntry(s[t].messages)].at = s[t].turn_count
      /\ s[t].messages[LastUserEntry(s[t].messages)].content = hist[t].text
      /\ _last_user_text(s[t]) = hist[t].text

C37_Witness ==
  \E t \in Tasks :
    /\ pc[t] = "plan"
    /\ hist[t].routes = 1
    /\ Len(hist[t].pre.messages) = KeepLast
    /\ Len(s[t].messages) = KeepLast
    /\ hist[t].text = FreePlain
    /\ _last_user_text(hist[t].pre) # FreePlain
    /\ _last_user_text(s[t]) = FreePlain

\* C38: a latitude/longitude pair that is not None counts as a known
\* location whatever its value, 0 included: the state has a location, the
\* profile check does not ask for one, and the routing decision is the one a
\* non-zero pair gets (weather, by rule 7, when the weather snapshot is stale).
HasCoordinates(st) == st.context.lat # NoneNum /\ st.context.lon # NoneNum
ProfileOtherwiseComplete(st) ==
  /\ TruthyStr(st.context.farmer_name)
  /\ TruthyStr(st.context.crop)
  /\ st.context.stage # "unknown"
  /\ st.context.land_size # NoneNum

C38_ZeroCoordinateIsKnown ==
  (fout.op = "route" /\ HasCoordinates(fin.st)) =>
    /\ _has_location(fin.st)
    /\ ProfileOtherwiseComplete(fin.st) => ~_needs_profile_questions(fin.st)
    /\ fout.step = _route([fin.st EXCEPT !.context.lat = 19, !.context.lon = 73], fin.t)

\* C39: when intake's extraction call gives up after its retries, or returns
\* data that does not validate, intake leaves the observation as it was and the
\* context as it was apart from coordinates read from the message text, raises
\* nothing, and the turn goes on to routing.
C39_FailedExtractionKeepsState ==
  \A t \in Tasks :
    (hist[t].last = "intake" /\ hist[t].gen = "failed") =>
      /\ pc[t] = "plan"
      /\ s[t].observation = hist[t].pre.observation
      /\ \A k \in DOMAIN s[t].context \ {"lat", "lon"} :
           s[t].context[k] = hist[t].pre.context[k]
      /\ \A k \in {"lat", "lon"} :
           \/ s[t].context[k] = hist[t].pre.context[k]
           \/ s[t].context[k] = hist[t].text[k] /\ hist[t].text[k] # NoneNum

C39_Witness ==
  \E t \in Tasks :
    /\ hist[t].last = "intake"
    /\ hist[t].gen = "failed"
    /\ pc[t] = "plan"
    /\ hist[t].text = FreeLatLon
    /\ hist[t].pre.context.farmer_name = "Ramesh"
    /\ hist[t].pre.context.crop # NoneStr
    /\ hist[t].pre.context.lat = NoneNum
    /\ s[t].context = [hist[t].pre.context EXCEPT !.lat = 19, !.lon = 73]
    /\ s[t].observation = hist[t].pre.observation

====
